---- MODULE Spec2Model ----
(***************************************************************************)
(* A model of the football-club bot's entity store (src/database.py), its  *)
(* transfer ledger and its match-reminder scheduler (src/bot.py).          *)
(*                                                                         *)
(* The store is one SQLite file.  Every thread has its own thread-local    *)
(* connection (get_db_connection); Python's sqlite3 opens a transaction    *)
(* implicitly before the first INSERT/UPDATE/DELETE of a connection and    *)
(* keeps it open until that connection calls commit().  No handler of the  *)
(* program ever calls rollback().  A SELECT outside a transaction reads    *)
(* the committed database; inside one, it reads the connection's own       *)
(* uncommitted rows.  SQLite admits one writing transaction at a time.     *)
(***************************************************************************)
EXTENDS Integers, Sequences, FiniteSets, TLC

VARIABLES
    db,       \* the committed content of football_bot.db
    tx,       \* per connection: <<>> or <<s>>, s the content its open transaction sees
    pc,       \* per thread: the statement its current call is about to run
    frame,    \* per thread: the locals of its current call
    calls,    \* number of calls started so far
    faults,   \* number of store errors raised so far
    dirty,    \* per connection: the failed calls that left writes in tx, as [op, on]
    leaked,   \* the failed calls whose writes reached the committed database
    okCount,  \* per player: number of transfer_player calls that returned True
    lastTo,   \* per player: to_club_id of the last transfer_player call that returned True
    now,      \* the wall clock (datetime.now()), in minutes
    returned, \* per match id: how many calls of get_upcoming_matches returned the match
    sends,    \* the reminder sends attempted so far, in order: <<match id, side, recipient, outcome>>
    bot,      \* per thread: its FootballBot's reminder loop task and ready event
    req,      \* the RateLimitHandler and the locals of its make_request call
    boot,     \* the locals of start_bot_with_retry
    web,      \* web_server's bot_started and bot_lock, and the starts of bots
    view      \* the DeleteClubConfirmationView on display: its club_id and club_name

vars == <<db, tx, pc, frame, calls, faults, dirty, leaked, okCount, lastTo,
          now, returned, sends, bot, req, boot, web, view>>

(* What the store and its scheduler leave alone: the bot's lifecycle, the HTTP
   rate limiter, the bootstrap and the confirmation on display. *)
host == <<bot, req, boot, web, view>>

(* What the ledger calls leave alone: the scheduler's clock and its records. *)
sched == <<now, returned, sends, host>>

----------------------------------------------------------------------------
(* Bounds of the model. *)

MaxCalls == 2
MaxFaults == 1
InitMoney == 10
MaxTime == 2
MaxMatches == 2
MaxClubs == 4

(* The number of calls a run of the lookup race may hold: the tick, the reset
   and the two clubs created after it. *)
RaceCalls == 4

(* The number of calls a run of the delete confirmation may hold: the command,
   the reset, a club created after it and the confirmation. *)
ConfirmCalls == 4

(* The number of commands a run of the schedule may hold next to its ticks. *)
ScheduleCommands == 2

(* get_upcoming_matches(minutes=5): the lookahead window of the reminder loop. *)
LookaheadMinutes == 5

(* Python's None / SQL NULL.  Row ids start at 1 (AUTOINCREMENT), so 0 is free;
   like None, 0 is falsy in `if from_club_id:`. *)
NULL == 0

(* The threads of the process that touch the store: the thread running
   BotManager's event loop and the bot thread spawned by create_app. *)
Conns == {"main", "bot_thread"}

ClubIds == {1, 2, 3}
PlayerIds == {1, 2}
Fees == {2}

(* The names, owners, balances and roles the club operations are called with. *)
ClubNames == {1, 4}
OwnerIds == {1, 5}
Moneys == {0}
ClubTargets == {1, 4}
RoleIds == {7}

(* What transfer_player is called with when it is called directly, past the
   checks of the command layer: a player and a club that do not exist next to
   ones that do, and a fee above every club's money. *)
DirectPlayers == {1, 3}
DirectClubs == {2, 9}
DirectFees == {2, InitMoney + 1}

(* The pairs of clubs the matches of a run are scheduled between. *)
Fixtures == {<<1, 2>>, <<3, 1>>}

(* The users the bot's cache knows (get_user), and the guilds it is in, each
   a function from the role ids of the guild to the members holding the role. *)
CachedUsers == {1, 2, 3}
Guilds == << [r \in {7} |-> {1, 4}], [r \in {8} |-> {}] >>

(* How a send ends: delivered, or discord.Forbidden (the recipient takes no
   direct messages), or another discord.HTTPException; and the ones the
   `except discord.Forbidden` around each send catches. *)
SendOutcomes == {"ok", "Forbidden", "HTTPException"}
CaughtPerSend == {"Forbidden"}

----------------------------------------------------------------------------
(* The four relations of init_database, and sqlite_sequence. *)

(* A datetime parameter is stored through sqlite3's default adapter as ISO
   text, and get_db_connection opens the connection without detect_types, so a
   SELECT gives the column back as that text (str), not as a datetime.  ISO
   texts compare as their times do. *)
IsoText(t) == [type |-> "str", minute |-> t]

(* The column value as the schema declares it (match_time TIMESTAMP): a
   datetime, which is what a connection with detect_types would give back. *)
DateTime(t) == [type |-> "datetime", minute |-> t]

(* Whether value v has datetime's timestamp() method. *)
HasTimestamp(v) == v.type = "datetime"

EmptyDb ==
    [clubs     |-> <<>>,
     players   |-> <<>>,
     transfers |-> {},
     matches   |-> <<>>,
     seq       |-> [clubs |-> 0, players |-> 0, transfers |-> 0, matches |-> 0]]

ClubRow(id) == [name |-> id, owner_id |-> id, money |-> InitMoney, role_id |-> NULL]

(* The database the ledger runs start from: three clubs, two players, one
   scheduled match between clubs 1 and 2.  Player 1 was signed by club 1 as a
   free agent for a fee of 2 (one transfer row, club 1 debited); player 2 is a
   free agent. *)
InitDb ==
    [clubs     |-> [k \in ClubIds |->
                       [ClubRow(k) EXCEPT !.money = IF k = 1 THEN InitMoney - 2 ELSE @]],
     players   |-> [p \in PlayerIds |-> [name |-> p, value |-> 1, age |-> NULL,
                                         club_id |-> IF p = 1 THEN 1 ELSE NULL]],
     transfers |-> {[id |-> 1, player_id |-> 1, from_club_id |-> NULL,
                     to_club_id |-> 1, transfer_fee |-> 2]},
     matches   |-> [m \in {1} |-> [team1_id |-> 1, team2_id |-> 2,
                                    match_time |-> IsoText(1),
                                    reminder_sent |-> FALSE, created_at |-> 0]],
     seq       |-> [clubs |-> 3, players |-> 2, transfers |-> 1, matches |-> 1]]

----------------------------------------------------------------------------
(* Connections and transactions. *)

(* What a statement run on c's connection reads. *)
View(c) == IF tx[c] = <<>> THEN db ELSE tx[c][1]

(* SQLite's write lock: c's statement can write iff no other connection is
   inside a writing transaction. *)
LockFree(c) == \A d \in Conns \ {c} : tx[d] = <<>>

IdleFrame ==
    [op |-> "none", player_id |-> NULL, to_club_id |-> NULL, transfer_fee |-> 0,
     from_club_id |-> NULL, club_id |-> NULL, rowcount |-> 0,
     name |-> NULL, owner_id |-> NULL, money |-> 0, role_id |-> NULL,
     matches |-> <<>>, todo |-> {}, seen |-> {}, handled |-> <<>>, error |-> "none",
     cur |-> NULL, team1_data |-> <<>>,
     team1 |-> NULL, team2 |-> NULL, team1_id |-> NULL, team2_id |-> NULL,
     match_time |-> 0, value |-> 0, age |-> NULL,
     result |-> FALSE, pre |-> <<>>, post |-> <<>>]

(* No confirmation is on display. *)
NoView == [club_id |-> NULL, club_name |-> NULL, state |-> "none"]

(* The content c's connection saw when the current call made its first write. *)
Pre(c) == IF frame[c].pre = <<>> THEN View(c) ELSE frame[c].pre[1]

----------------------------------------------------------------------------
(* The SQL statements of the ledger, as functions of the content s they run on. *)

(* UPDATE players SET club_id = ? WHERE id = ? *)
UpdatePlayerClub(s, p, to) ==
    [s EXCEPT !.players =
        [q \in DOMAIN s.players |->
            IF q = p THEN [s.players[q] EXCEPT !.club_id = to] ELSE s.players[q]]]

(* INSERT INTO transfers (player_id, from_club_id, to_club_id, transfer_fee):
   the row id is the next value of the AUTOINCREMENT sequence. *)
InsertTransfer(s, p, from, to, fee) ==
    [s EXCEPT !.transfers = @ \cup
                  {[id |-> s.seq.transfers + 1, player_id |-> p, from_club_id |-> from,
                    to_club_id |-> to, transfer_fee |-> fee]},
              !.seq.transfers = @ + 1]

(* to_club_id INTEGER NOT NULL, player_id INTEGER NOT NULL: the INSERT raises
   sqlite3.IntegrityError on a NULL in either column.  Foreign keys are declared
   but SQLite does not enforce them unless PRAGMA foreign_keys is set, and the
   program never sets it. *)
TransferRowAccepted(p, to) == p # NULL /\ to # NULL

(* AddMoney with the balance clamped at zero. *)
AddMoneyClamped(s, club, delta) ==
    [s EXCEPT !.clubs =
        [k \in DOMAIN s.clubs |->
            IF k = club
            THEN [s.clubs[k] EXCEPT !.money = IF @ + delta < 0 THEN 0 ELSE @ + delta]
            ELSE s.clubs[k]]]

(* AddMoney without its WHERE clause: every club row is updated. *)
AddMoneyNoWhere(s, club, delta) ==
    [s EXCEPT !.clubs = [k \in DOMAIN s.clubs |-> [s.clubs[k] EXCEPT !.money = @ + delta]]]

(* UPDATE clubs SET money = money + ? WHERE id = ?   (delta < 0 for the debit) *)
AddMoney(s, club, delta) ==
    [s EXCEPT !.clubs =
        [k \in DOMAIN s.clubs |->
            IF k = club THEN [s.clubs[k] EXCEPT !.money = @ + delta] ELSE s.clubs[k]]]

(* DeleteTransfersOf with only the first half of its WHERE clause. *)
DeleteTransfersFrom(s, club) ==
    [s EXCEPT !.transfers = {t \in s.transfers : ~(t.from_club_id = club)}]

(* DELETE FROM transfers WHERE from_club_id = ? OR to_club_id = ? *)
DeleteTransfersOf(s, club) ==
    [s EXCEPT !.transfers =
        {t \in s.transfers : ~(t.from_club_id = club \/ t.to_club_id = club)}]

(* DELETE FROM matches WHERE team1_id = ? OR team2_id = ? *)
DeleteMatchesOf(s, club) ==
    [s EXCEPT !.matches =
        [m \in {x \in DOMAIN s.matches :
                    ~(s.matches[x].team1_id = club \/ s.matches[x].team2_id = club)}
            |-> s.matches[m]]]

(* UPDATE players SET club_id = NULL WHERE club_id = ? *)
ReleasePlayersOf(s, club) ==
    [s EXCEPT !.players =
        [q \in DOMAIN s.players |->
            IF s.players[q].club_id = club
            THEN [s.players[q] EXCEPT !.club_id = NULL] ELSE s.players[q]]]

(* DELETE FROM clubs WHERE id = ? *)
DeleteClubRow(s, club) ==
    [s EXCEPT !.clubs = [k \in DOMAIN s.clubs \ {club} |-> s.clubs[k]]]

----------------------------------------------------------------------------
(* How a call ends. *)

(* The call returns result to its caller: the thread stands at "ret" with the
   call's locals until the caller goes on; post is the committed content the
   call leaves. *)
Returns(c, result, post) ==
    /\ pc' = [pc EXCEPT ![c] = "ret"]
    /\ frame' = [frame EXCEPT ![c].result = result,
                              ![c].pre = <<Pre(c)>>,
                              ![c].post = <<post>>]

(* The current call of c for the records: the operation and the club
   (delete_club) or player (transfer_player) it is about. *)
Call(c) ==
    [op |-> frame[c].op,
     on |-> IF frame[c].op = "delete_club" THEN frame[c].club_id ELSE frame[c].player_id]

(* A statement of c's call raised err: `except Exception` logs it and returns False.
   The handler does not roll back, so the connection keeps the transaction ntx
   the store left it with; the writes of this call still in it are recorded in
   dirty. *)
Raises(c, ntx, err) ==
    /\ tx' = [tx EXCEPT ![c] = ntx]
    /\ dirty' = [dirty EXCEPT ![c] =
                    IF ntx = <<>> THEN {}
                    ELSE IF ntx[1] # Pre(c) THEN @ \cup {Call(c)} ELSE @]
    /\ pc' = [pc EXCEPT ![c] = "ret"]
    /\ frame' = [frame EXCEPT ![c].result = FALSE,
                              ![c].error = err,
                              ![c].pre = <<Pre(c)>>,
                              ![c].post = <<db>>]
    /\ UNCHANGED <<db, leaked, okCount, lastTo, sched>>

(* conn.commit(): the connection's transaction becomes the committed content,
   with every write still pending on the connection, whichever call made it. *)
Commits(c) ==
    /\ db' = View(c)
    /\ tx' = [tx EXCEPT ![c] = <<>>]
    /\ leaked' = leaked \cup dirty[c]
    /\ dirty' = [dirty EXCEPT ![c] = {}]

(* The caller takes the return value and the thread is free for the next call. *)
Resume(c) ==
    /\ pc[c] = "ret"
    /\ pc' = [pc EXCEPT ![c] = "idle"]
    /\ frame' = [frame EXCEPT ![c] = IdleFrame]
    /\ UNCHANGED <<db, tx, calls, faults, dirty, leaked, okCount, lastTo, sched>>

(* A write statement of c's call ran: the implicit BEGIN takes the write lock
   if the connection has no transaction yet. *)
Writes(c, s, next) ==
    /\ LockFree(c)
    /\ tx' = [tx EXCEPT ![c] = <<s>>]
    /\ pc' = [pc EXCEPT ![c] = next]
    /\ frame' = [frame EXCEPT ![c].pre = IF @ = <<>> THEN <<View(c)>> ELSE @]
    /\ UNCHANGED <<db, calls, faults, dirty, leaked, okCount, lastTo, sched>>

----------------------------------------------------------------------------
(* transfer_player(player_id, to_club_id, transfer_fee) *)

(* SELECT club_id FROM players WHERE id = ?; from_club_id = row['club_id'] if row else None *)
transfer_player_select(c, p, to, fee) ==
    /\ pc[c] = "idle"
    /\ calls < MaxCalls
    /\ calls' = calls + 1
    /\ frame' = [frame EXCEPT ![c] =
                    [IdleFrame EXCEPT !.op = "transfer_player", !.player_id = p,
                                      !.to_club_id = to, !.transfer_fee = fee,
                                      !.from_club_id =
                                          IF p \in DOMAIN View(c).players
                                          THEN View(c).players[p].club_id ELSE NULL]]
    /\ pc' = [pc EXCEPT ![c] = "tp_update"]
    /\ UNCHANGED <<db, tx, faults, dirty, leaked, okCount, lastTo, sched>>

transfer_player_update(c) ==
    /\ pc[c] = "tp_update"
    /\ Writes(c, UpdatePlayerClub(View(c), frame[c].player_id, frame[c].to_club_id),
              "tp_insert")

transfer_player_insert(c) ==
    /\ pc[c] = "tp_insert"
    /\ IF TransferRowAccepted(frame[c].player_id, frame[c].to_club_id)
       THEN Writes(c, InsertTransfer(View(c), frame[c].player_id, frame[c].from_club_id,
                                     frame[c].to_club_id, frame[c].transfer_fee),
                   "tp_credit")
       ELSE Raises(c, tx[c], "IntegrityError") /\ UNCHANGED <<calls, faults>>

(* if from_club_id: UPDATE clubs SET money = money + fee WHERE id = from_club_id *)
transfer_player_credit(c) ==
    /\ pc[c] = "tp_credit"
    /\ Writes(c, IF frame[c].from_club_id # NULL
                 THEN AddMoney(View(c), frame[c].from_club_id, frame[c].transfer_fee)
                 ELSE View(c),
              "tp_debit")

(* transfer_player_debit put under the `if from_club_id:` of the credit. *)
transfer_player_debit_if_source(c) ==
    /\ pc[c] = "tp_debit"
    /\ Writes(c, IF frame[c].from_club_id # NULL
                 THEN AddMoney(View(c), frame[c].to_club_id, 0 - frame[c].transfer_fee)
                 ELSE View(c),
              "tp_commit")

(* UPDATE clubs SET money = money - ? WHERE id = ? *)
transfer_player_debit(c) ==
    /\ pc[c] = "tp_debit"
    /\ Writes(c, AddMoney(View(c), frame[c].to_club_id, 0 - frame[c].transfer_fee),
              "tp_commit")

transfer_player_commit(c) ==
    /\ pc[c] = "tp_commit"
    /\ Commits(c)
    /\ Returns(c, TRUE, View(c))
    /\ okCount' = [p \in PlayerIds |->
                       IF p = frame[c].player_id THEN okCount[p] + 1 ELSE okCount[p]]
    /\ lastTo' = [p \in PlayerIds |->
                      IF p = frame[c].player_id THEN frame[c].to_club_id ELSE lastTo[p]]
    /\ UNCHANGED <<calls, faults, sched>>

----------------------------------------------------------------------------
(* delete_club(club_id) *)

delete_club_transfers(c, club) ==
    /\ pc[c] = "idle"
    /\ calls < MaxCalls
    /\ LockFree(c)
    /\ calls' = calls + 1
    /\ tx' = [tx EXCEPT ![c] = <<DeleteTransfersOf(View(c), club)>>]
    /\ frame' = [frame EXCEPT ![c] =
                    [IdleFrame EXCEPT !.op = "delete_club", !.club_id = club,
                                      !.pre = <<View(c)>>]]
    /\ pc' = [pc EXCEPT ![c] = "dc_matches"]
    /\ UNCHANGED <<db, faults, dirty, leaked, okCount, lastTo, sched>>

delete_club_matches(c) ==
    /\ pc[c] = "dc_matches"
    /\ Writes(c, DeleteMatchesOf(View(c), frame[c].club_id), "dc_players")

delete_club_players(c) ==
    /\ pc[c] = "dc_players"
    /\ Writes(c, ReleasePlayersOf(View(c), frame[c].club_id), "dc_club")

(* cursor.rowcount after the last statement is the number of club rows deleted. *)
delete_club_club(c) ==
    /\ pc[c] = "dc_club"
    /\ LockFree(c)
    /\ tx' = [tx EXCEPT ![c] = <<DeleteClubRow(View(c), frame[c].club_id)>>]
    /\ frame' = [frame EXCEPT ![c].rowcount =
                    IF frame[c].club_id \in DOMAIN View(c).clubs THEN 1 ELSE 0]
    /\ pc' = [pc EXCEPT ![c] = "dc_commit"]
    /\ UNCHANGED <<db, calls, faults, dirty, leaked, okCount, lastTo, sched>>

(* conn.commit(); return cursor.rowcount > 0 *)
delete_club_commit(c) ==
    /\ pc[c] = "dc_commit"
    /\ Commits(c)
    /\ Returns(c, frame[c].rowcount > 0, View(c))
    /\ UNCHANGED <<calls, faults, okCount, lastTo, sched>>

----------------------------------------------------------------------------
(* reset_all_data() *)

(* DELETE FROM transfers / matches / players / clubs *)
DeleteAllTransfers(s) == [s EXCEPT !.transfers = {}]
DeleteAllMatches(s) == [s EXCEPT !.matches = <<>>]
DeleteAllPlayers(s) == [s EXCEPT !.players = <<>>]
DeleteAllClubs(s) == [s EXCEPT !.clubs = <<>>]

(* DELETE FROM sqlite_sequence: the AUTOINCREMENT counters start over, so the
   ids of deleted rows are given out again. *)
ResetSequences(s) == [s EXCEPT !.seq = EmptyDb.seq]

reset_all_data_transfers(c) ==
    /\ pc[c] = "idle"
    /\ calls < MaxCalls
    /\ LockFree(c)
    /\ calls' = calls + 1
    /\ tx' = [tx EXCEPT ![c] = <<DeleteAllTransfers(View(c))>>]
    /\ frame' = [frame EXCEPT ![c] =
                    [IdleFrame EXCEPT !.op = "reset_all_data", !.pre = <<View(c)>>]]
    /\ pc' = [pc EXCEPT ![c] = "rs_matches"]
    /\ UNCHANGED <<db, faults, dirty, leaked, okCount, lastTo, sched>>

reset_all_data_matches(c) ==
    /\ pc[c] = "rs_matches"
    /\ Writes(c, DeleteAllMatches(View(c)), "rs_players")

reset_all_data_players(c) ==
    /\ pc[c] = "rs_players"
    /\ Writes(c, DeleteAllPlayers(View(c)), "rs_clubs")

reset_all_data_clubs(c) ==
    /\ pc[c] = "rs_clubs"
    /\ Writes(c, DeleteAllClubs(View(c)), "rs_sequence")

reset_all_data_sequence(c) ==
    /\ pc[c] = "rs_sequence"
    /\ Writes(c, ResetSequences(View(c)), "rs_commit")

(* conn.commit(); return True *)
reset_all_data_commit(c) ==
    /\ pc[c] = "rs_commit"
    /\ Commits(c)
    /\ Returns(c, TRUE, View(c))
    /\ UNCHANGED <<calls, faults, okCount, lastTo, sched>>

----------------------------------------------------------------------------
(* create_club(name, owner_id, money, role_id), update_club_money(club_id,
   money), update_club_role(club_id, role_id) *)

(* create_club without the UNIQUE constraints of the clubs table. *)
ClubRowAcceptedNoUnique(s, name, owner) == name # NULL

(* name TEXT UNIQUE NOT NULL, owner_id INTEGER UNIQUE: the INSERT raises
   sqlite3.IntegrityError on a NULL name, on a name another row has, and on an
   owner_id another row has; NULL owner_ids do not collide. *)
ClubRowAccepted(s, name, owner) ==
    /\ name # NULL
    /\ \A k \in DOMAIN s.clubs :
           /\ s.clubs[k].name # name
           /\ owner # NULL => s.clubs[k].owner_id # owner

(* INSERT INTO clubs (name, owner_id, money, role_id) *)
InsertClub(s, name, owner, money, role) ==
    [s EXCEPT !.clubs =
                  [k \in DOMAIN s.clubs \cup {s.seq.clubs + 1} |->
                      IF k \in DOMAIN s.clubs THEN s.clubs[k]
                      ELSE [name |-> name, owner_id |-> owner, money |-> money,
                            role_id |-> role]],
              !.seq.clubs = @ + 1]

(* UPDATE clubs SET money = ? WHERE id = ? *)
SetMoney(s, club, money) ==
    [s EXCEPT !.clubs =
        [k \in DOMAIN s.clubs |->
            IF k = club THEN [s.clubs[k] EXCEPT !.money = money] ELSE s.clubs[k]]]

(* UPDATE clubs SET role_id = ? WHERE id = ? *)
SetRole(s, club, role) ==
    [s EXCEPT !.clubs =
        [k \in DOMAIN s.clubs |->
            IF k = club THEN [s.clubs[k] EXCEPT !.role_id = role] ELSE s.clubs[k]]]

create_club_call(c, name, owner, money, role) ==
    /\ pc[c] = "idle"
    /\ calls < MaxCalls
    /\ View(c).seq.clubs < MaxClubs
    /\ calls' = calls + 1
    /\ frame' = [frame EXCEPT ![c] =
                    [IdleFrame EXCEPT !.op = "create_club", !.name = name,
                                      !.owner_id = owner, !.money = money,
                                      !.role_id = role]]
    /\ pc' = [pc EXCEPT ![c] = "cc_insert"]
    /\ UNCHANGED <<db, tx, faults, dirty, leaked, okCount, lastTo, sched>>

(* The INSERT as INSERT OR REPLACE: the rows that hold the name or the owner
   give way to the new row. *)
create_club_insert_or_replace(c) ==
    /\ pc[c] = "cc_insert"
    /\ LockFree(c)
    /\ LET clash == {k \in DOMAIN View(c).clubs :
                        \/ View(c).clubs[k].name = frame[c].name
                        \/ /\ frame[c].owner_id # NULL
                           /\ View(c).clubs[k].owner_id = frame[c].owner_id}
           kept == [View(c) EXCEPT !.clubs = [k \in DOMAIN @ \ clash |-> @[k]]]
       IN  Writes(c, InsertClub(kept, frame[c].name, frame[c].owner_id,
                                frame[c].money, frame[c].role_id),
                  "cc_commit")

(* The INSERT; on sqlite3.IntegrityError the function returns False. *)
create_club_insert(c) ==
    /\ pc[c] = "cc_insert"
    /\ LockFree(c)
    /\ IF ClubRowAccepted(View(c), frame[c].name, frame[c].owner_id)
       THEN Writes(c, InsertClub(View(c), frame[c].name, frame[c].owner_id,
                                 frame[c].money, frame[c].role_id),
                   "cc_commit")
       ELSE Raises(c, tx[c], "IntegrityError") /\ UNCHANGED <<calls, faults>>

create_club_commit(c) ==
    /\ pc[c] = "cc_commit"
    /\ Commits(c)
    /\ Returns(c, TRUE, View(c))
    /\ UNCHANGED <<calls, faults, okCount, lastTo, sched>>

update_club_money_call(c, club, money) ==
    /\ pc[c] = "idle"
    /\ calls < MaxCalls
    /\ calls' = calls + 1
    /\ frame' = [frame EXCEPT ![c] =
                    [IdleFrame EXCEPT !.op = "update_club_money", !.club_id = club,
                                      !.money = money]]
    /\ pc' = [pc EXCEPT ![c] = "um_update"]
    /\ UNCHANGED <<db, tx, faults, dirty, leaked, okCount, lastTo, sched>>

update_club_money_update(c) ==
    /\ pc[c] = "um_update"
    /\ LockFree(c)
    /\ tx' = [tx EXCEPT ![c] = <<SetMoney(View(c), frame[c].club_id, frame[c].money)>>]
    /\ frame' = [frame EXCEPT ![c].rowcount =
                                  IF frame[c].club_id \in DOMAIN View(c).clubs THEN 1 ELSE 0,
                              ![c].pre = <<View(c)>>]
    /\ pc' = [pc EXCEPT ![c] = "um_commit"]
    /\ UNCHANGED <<db, calls, faults, dirty, leaked, okCount, lastTo, sched>>

(* conn.commit(); return cursor.rowcount > 0 *)
update_club_money_commit(c) ==
    /\ pc[c] = "um_commit"
    /\ Commits(c)
    /\ Returns(c, frame[c].rowcount > 0, View(c))
    /\ UNCHANGED <<calls, faults, okCount, lastTo, sched>>

update_club_role_call(c, club, role) ==
    /\ pc[c] = "idle"
    /\ calls < MaxCalls
    /\ calls' = calls + 1
    /\ frame' = [frame EXCEPT ![c] =
                    [IdleFrame EXCEPT !.op = "update_club_role", !.club_id = club,
                                      !.role_id = role]]
    /\ pc' = [pc EXCEPT ![c] = "ur_update"]
    /\ UNCHANGED <<db, tx, faults, dirty, leaked, okCount, lastTo, sched>>

update_club_role_update(c) ==
    /\ pc[c] = "ur_update"
    /\ LockFree(c)
    /\ tx' = [tx EXCEPT ![c] = <<SetRole(View(c), frame[c].club_id, frame[c].role_id)>>]
    /\ frame' = [frame EXCEPT ![c].rowcount =
                                  IF frame[c].club_id \in DOMAIN View(c).clubs THEN 1 ELSE 0,
                              ![c].pre = <<View(c)>>]
    /\ pc' = [pc EXCEPT ![c] = "ur_commit"]
    /\ UNCHANGED <<db, calls, faults, dirty, leaked, okCount, lastTo, sched>>

(* conn.commit(); return cursor.rowcount > 0 *)
update_club_role_commit(c) ==
    /\ pc[c] = "ur_commit"
    /\ Commits(c)
    /\ Returns(c, frame[c].rowcount > 0, View(c))
    /\ UNCHANGED <<calls, faults, okCount, lastTo, sched>>

----------------------------------------------------------------------------
(* create_match(team1_id, team2_id, match_time): INSERT INTO matches and
   commit; reminder_sent takes its DEFAULT FALSE and created_at its DEFAULT
   CURRENT_TIMESTAMP, kept here as the minute of the clock. *)

InsertMatch(s, team1, team2, t) ==
    [s EXCEPT !.matches =
                  [m \in DOMAIN s.matches \cup {s.seq.matches + 1} |->
                      IF m \in DOMAIN s.matches THEN s.matches[m]
                      ELSE [team1_id |-> team1, team2_id |-> team2,
                            match_time |-> IsoText(t), reminder_sent |-> FALSE,
                            created_at |-> now]],
              !.seq.matches = @ + 1]

create_match(c, team1, team2, t) ==
    /\ pc[c] = "idle"
    /\ calls < MaxCalls
    /\ View(c).seq.matches < MaxMatches
    /\ LockFree(c)
    /\ calls' = calls + 1
    /\ db' = InsertMatch(View(c), team1, team2, t)
    /\ tx' = [tx EXCEPT ![c] = <<>>]
    /\ leaked' = leaked \cup dirty[c]
    /\ dirty' = [dirty EXCEPT ![c] = {}]
    /\ returned' = [m \in DOMAIN returned \cup {View(c).seq.matches + 1} |->
                       IF m \in DOMAIN returned THEN returned[m] ELSE 0]
    /\ UNCHANGED <<pc, frame, faults, okCount, lastTo, now, sends, host>>

----------------------------------------------------------------------------
(* The create_match command of MatchCommands: the two clubs are looked up by
   name, the checks are made, and create_match inserts the row.  The body has
   no await between its first lookup and the INSERT, but the other thread runs
   on. (The messages the command sends after the INSERT do not touch the store.) *)

(* get_club_by_name: SELECT * FROM clubs WHERE name = ? *)
ClubByName(s, name) == {k \in DOMAIN s.clubs : s.clubs[k].name = name}

(* The command replies with an error and returns. *)
Replies(c, err) ==
    /\ pc' = [pc EXCEPT ![c] = "ret"]
    /\ frame' = [frame EXCEPT ![c].result = FALSE, ![c].error = err,
                              ![c].pre = <<View(c)>>, ![c].post = <<db>>]

(* team1_data = get_club_by_name(team1); if not team1_data: ... return *)
create_match_command_team1(c, team1, team2, t) ==
    /\ pc[c] = "idle"
    /\ calls < MaxCalls
    /\ View(c).seq.matches < MaxMatches
    /\ calls' = calls + 1
    /\ LET found == ClubByName(View(c), team1)
           call == [IdleFrame EXCEPT !.op = "create_match", !.team1 = team1,
                                     !.team2 = team2, !.match_time = t]
       IN  IF found = {}
           THEN /\ pc' = [pc EXCEPT ![c] = "ret"]
                /\ frame' = [frame EXCEPT ![c] =
                       [call EXCEPT !.error = "not found",
                                    !.pre = <<View(c)>>, !.post = <<db>>]]
           ELSE /\ pc' = [pc EXCEPT ![c] = "cm_team2"]
                /\ frame' = [frame EXCEPT ![c] =
                       [call EXCEPT !.team1_id = CHOOSE k \in found : TRUE]]
    /\ UNCHANGED <<db, tx, faults, dirty, leaked, okCount, lastTo, sched>>

(* team2_data = get_club_by_name(team2); if not team2_data: ... return *)
create_match_command_team2(c) ==
    /\ pc[c] = "cm_team2"
    /\ LET found == ClubByName(View(c), frame[c].team2)
       IN  IF found = {}
           THEN Replies(c, "not found")
           ELSE /\ pc' = [pc EXCEPT ![c] = "cm_check"]
                /\ frame' = [frame EXCEPT ![c].team2_id = CHOOSE k \in found : TRUE]
    /\ UNCHANGED <<db, tx, calls, faults, dirty, leaked, okCount, lastTo, sched>>

(* if team1_data['id'] == team2_data['id']: ... return;
   if match_time <= datetime.now(): ... return *)
create_match_command_check(c) ==
    /\ pc[c] = "cm_check"
    /\ IF frame[c].team1_id = frame[c].team2_id
       THEN Replies(c, "against itself")
       ELSE IF frame[c].match_time <= now
       THEN Replies(c, "not in the future")
       ELSE pc' = [pc EXCEPT ![c] = "cm_insert"] /\ frame' = frame
    /\ UNCHANGED <<db, tx, calls, faults, dirty, leaked, okCount, lastTo, sched>>

(* success = create_match(team1_data['id'], team2_data['id'], match_time):
   the INSERT and the commit. *)
create_match_command_insert(c) ==
    /\ pc[c] = "cm_insert"
    /\ LockFree(c)
    /\ db' = InsertMatch(View(c), frame[c].team1_id, frame[c].team2_id,
                         frame[c].match_time)
    /\ tx' = [tx EXCEPT ![c] = <<>>]
    /\ leaked' = leaked \cup dirty[c]
    /\ dirty' = [dirty EXCEPT ![c] = {}]
    /\ returned' = [m \in DOMAIN returned \cup {View(c).seq.matches + 1} |->
                       IF m \in DOMAIN returned THEN returned[m] ELSE 0]
    /\ pc' = [pc EXCEPT ![c] = "ret"]
    /\ frame' = [frame EXCEPT ![c].result = TRUE,
                              ![c].pre = <<View(c)>>, ![c].post = <<db'>>]
    /\ UNCHANGED <<calls, faults, okCount, lastTo, now, sends, host>>

----------------------------------------------------------------------------
(* The transfer_player command of PlayerCommands.  The player and the
   destination club are looked up by name, the fee is checked against the
   club's money as the lookup gave it, and transfer_player is called with the
   ids.  The body has no await between its lookups and the call, but the other
   thread runs on. *)

(* get_player_by_name: SELECT * FROM players WHERE name = ?; fetchone gives
   the row with the lowest id. *)
PlayerByName(s, name) == {q \in DOMAIN s.players : s.players[q].name = name}

FirstOf(S) == CHOOSE x \in S : \A y \in S : x <= y

(* The fees the command is called with: a negative one, one every club can
   pay, and one that only a club with more than 8 can pay. *)
CommandFees == {0 - 1, 2, InitMoney - 1}

(* The destinations the command is called with; no club is named 9. *)
CommandClubs == {1, 2, 9}

(* Lines 234-278: get_player_by_name, get_club_by_name, `player['club_id'] ==
   to_club_data['id']`, `fee < 0`, `to_club_data['money'] < fee`; each failed
   check replies and returns. *)
transfer_player_command_check(c, player_name, to_club, fee) ==
    /\ pc[c] = "idle"
    /\ calls < MaxCalls
    /\ calls' = calls + 1
    /\ LET players == PlayerByName(View(c), player_name)
           player == FirstOf(players)
           found == ClubByName(View(c), to_club)
           to == CHOOSE k \in found : TRUE
           call == [IdleFrame EXCEPT !.op = "transfer_player",
                                     !.player_id = IF players = {} THEN NULL ELSE player,
                                     !.name = to_club, !.transfer_fee = fee]
           reply(err) ==
               /\ pc' = [pc EXCEPT ![c] = "ret"]
               /\ frame' = [frame EXCEPT ![c] =
                      [call EXCEPT !.error = err, !.pre = <<View(c)>>, !.post = <<db>>]]
       IN  IF players = {} THEN reply("not found")
           ELSE IF found = {} THEN reply("not found")
           ELSE IF View(c).players[player].club_id = to THEN reply("already in the club")
           ELSE IF fee < 0 THEN reply("negative fee")
           ELSE IF View(c).clubs[to].money < fee THEN reply("cannot afford")
           ELSE /\ pc' = [pc EXCEPT ![c] = "tp_select"]
                /\ frame' = [frame EXCEPT ![c] = [call EXCEPT !.to_club_id = to]]
    /\ UNCHANGED <<db, tx, faults, dirty, leaked, okCount, lastTo, sched>>

(* success = transfer_player(player['id'], to_club_data['id'], fee): the
   SELECT of the ledger; its writes are the steps of transfer_player. *)
transfer_player_command_call(c) ==
    /\ pc[c] = "tp_select"
    /\ frame' = [frame EXCEPT ![c].from_club_id =
                    IF frame[c].player_id \in DOMAIN View(c).players
                    THEN View(c).players[frame[c].player_id].club_id ELSE NULL]
    /\ pc' = [pc EXCEPT ![c] = "tp_update"]
    /\ UNCHANGED <<db, tx, calls, faults, dirty, leaked, okCount, lastTo, sched>>

----------------------------------------------------------------------------
(* The create_player and set_player_value commands of PlayerCommands, with
   create_player and update_player_value of the store. *)

(* `age < 16 or age > 50` *)
MinAge == 16
MaxAge == 50

(* The names, values and ages the commands are called with.  NULL is an age
   that was not given; the command tests `age is not None`, so an age of 0
   counts as one below 16 and is not among the inputs. *)
PlayerNames == {1, 3}
Values == {0 - 1, 0, 3}
Ages == {NULL, MinAge - 1, MinAge, MaxAge + 1}

(* INSERT INTO players (name, value, position, age, club_id) *)
InsertPlayer(s, name, value, age, club) ==
    [s EXCEPT !.players =
                  [q \in DOMAIN s.players \cup {s.seq.players + 1} |->
                      IF q \in DOMAIN s.players THEN s.players[q]
                      ELSE [name |-> name, value |-> value, age |-> age,
                            club_id |-> club]],
              !.seq.players = @ + 1]

(* UPDATE players SET value = ? WHERE id = ? *)
SetValue(s, p, value) ==
    [s EXCEPT !.players =
        [q \in DOMAIN s.players |->
            IF q = p THEN [s.players[q] EXCEPT !.value = value] ELSE s.players[q]]]

(* create_player without the check of the value. *)
create_player_command_any_value(c, name, value, age, club) ==
    /\ pc[c] = "idle"
    /\ calls < MaxCalls
    /\ calls' = calls + 1
    /\ LET found == ClubByName(View(c), club)
           call == [IdleFrame EXCEPT !.op = "create_player", !.name = name,
                                     !.value = value, !.age = age]
           reply(err) ==
               /\ pc' = [pc EXCEPT ![c] = "ret"]
               /\ frame' = [frame EXCEPT ![c] =
                      [call EXCEPT !.error = err, !.pre = <<View(c)>>, !.post = <<db>>]]
       IN  IF PlayerByName(View(c), name) # {} THEN reply("already exists")
           ELSE IF age # NULL /\ (age < MinAge \/ age > MaxAge) THEN reply("age")
           ELSE IF club # NULL /\ found = {} THEN reply("not found")
           ELSE /\ pc' = [pc EXCEPT ![c] = "cp_insert"]
                /\ frame' = [frame EXCEPT ![c] =
                       [call EXCEPT !.club_id =
                           IF club = NULL THEN NULL ELSE CHOOSE k \in found : TRUE]]
    /\ UNCHANGED <<db, tx, faults, dirty, leaked, okCount, lastTo, sched>>

(* Lines 48-83: get_player_by_name, `value < 0`, `age is not None and (age <
   16 or age > 50)`, and get_club_by_name `if club:`; each failed check replies
   and returns. *)
create_player_command(c, name, value, age, club) ==
    /\ pc[c] = "idle"
    /\ calls < MaxCalls
    /\ calls' = calls + 1
    /\ LET found == ClubByName(View(c), club)
           call == [IdleFrame EXCEPT !.op = "create_player", !.name = name,
                                     !.value = value, !.age = age]
           reply(err) ==
               /\ pc' = [pc EXCEPT ![c] = "ret"]
               /\ frame' = [frame EXCEPT ![c] =
                      [call EXCEPT !.error = err, !.pre = <<View(c)>>, !.post = <<db>>]]
       IN  IF PlayerByName(View(c), name) # {} THEN reply("already exists")
           ELSE IF value < 0 THEN reply("negative value")
           ELSE IF age # NULL /\ (age < MinAge \/ age > MaxAge) THEN reply("age")
           ELSE IF club # NULL /\ found = {} THEN reply("not found")
           ELSE /\ pc' = [pc EXCEPT ![c] = "cp_insert"]
                /\ frame' = [frame EXCEPT ![c] =
                       [call EXCEPT !.club_id =
                           IF club = NULL THEN NULL ELSE CHOOSE k \in found : TRUE]]
    /\ UNCHANGED <<db, tx, faults, dirty, leaked, okCount, lastTo, sched>>

(* success = create_player(name, value, position or None, age, club_id): the INSERT *)
create_player_insert(c) ==
    /\ pc[c] = "cp_insert"
    /\ Writes(c, InsertPlayer(View(c), frame[c].name, frame[c].value, frame[c].age,
                              frame[c].club_id),
              "cp_commit")

create_player_commit(c) ==
    /\ pc[c] = "cp_commit"
    /\ Commits(c)
    /\ Returns(c, TRUE, View(c))
    /\ UNCHANGED <<calls, faults, okCount, lastTo, sched>>

(* Lines 178-191: get_player_by_name and `value < 0`. *)
set_player_value_command(c, name, value) ==
    /\ pc[c] = "idle"
    /\ calls < MaxCalls
    /\ calls' = calls + 1
    /\ LET players == PlayerByName(View(c), name)
           call == [IdleFrame EXCEPT !.op = "set_player_value", !.name = name,
                                     !.value = value]
           reply(err) ==
               /\ pc' = [pc EXCEPT ![c] = "ret"]
               /\ frame' = [frame EXCEPT ![c] =
                      [call EXCEPT !.error = err, !.pre = <<View(c)>>, !.post = <<db>>]]
       IN  IF players = {} THEN reply("not found")
           ELSE IF value < 0 THEN reply("negative value")
           ELSE /\ pc' = [pc EXCEPT ![c] = "uv_update"]
                /\ frame' = [frame EXCEPT ![c] =
                       [call EXCEPT !.player_id = FirstOf(players)]]
    /\ UNCHANGED <<db, tx, faults, dirty, leaked, okCount, lastTo, sched>>

(* success = update_player_value(player['id'], value): the UPDATE *)
update_player_value_update(c) ==
    /\ pc[c] = "uv_update"
    /\ Writes(c, SetValue(View(c), frame[c].player_id, frame[c].value), "uv_commit")

(* conn.commit(); return cursor.rowcount > 0 *)
update_player_value_commit(c) ==
    /\ pc[c] = "uv_commit"
    /\ Commits(c)
    /\ Returns(c, frame[c].player_id \in DOMAIN View(c).players, View(c))
    /\ UNCHANGED <<calls, faults, okCount, lastTo, sched>>

----------------------------------------------------------------------------
(* get_upcoming_matches(minutes), called by check_match_reminders once per
   iteration of the loop. *)

(* SelectUpcoming without `AND reminder_sent = FALSE`. *)
SelectUpcomingAnyFlag(s, t, minutes) ==
    {m \in DOMAIN s.matches :
        /\ t <= s.matches[m].match_time.minute
        /\ s.matches[m].match_time.minute <= t + minutes}

(* SELECT * FROM matches WHERE match_time BETWEEN now AND now + minutes
   AND reminder_sent = FALSE: BETWEEN includes both ends. *)
SelectUpcoming(s, t, minutes) ==
    {m \in DOMAIN s.matches :
        /\ t <= s.matches[m].match_time.minute
        /\ s.matches[m].match_time.minute <= t + minutes
        /\ ~s.matches[m].reminder_sent}

(* UPDATE matches SET reminder_sent = TRUE WHERE id IN (...) *)
MarkSent(s, ids) ==
    [s EXCEPT !.matches =
        [m \in DOMAIN s.matches |->
            IF m \in ids THEN [s.matches[m] EXCEPT !.reminder_sent = TRUE]
            ELSE s.matches[m]]]

(* The SELECT; with no row the function returns [] at once, without a commit.
   seen keeps, for the record, the matches that earlier calls had returned when
   this call started. *)
get_upcoming_matches_select(c) ==
    /\ pc[c] = "idle"
    /\ calls < MaxCalls
    /\ calls' = calls + 1
    /\ LET ids == SelectUpcoming(View(c), now, LookaheadMinutes)
       IN  /\ frame' = [frame EXCEPT ![c] =
                           [IdleFrame EXCEPT !.op = "check_match_reminders",
                                             !.matches = [m \in ids |-> View(c).matches[m]],
                                             !.seen = {m \in DOMAIN returned :
                                                          returned[m] > 0}]]
           /\ pc' = [pc EXCEPT ![c] = IF ids = {} THEN "cmr_loop" ELSE "gum_update"]
    /\ UNCHANGED <<db, tx, faults, dirty, leaked, okCount, lastTo, sched>>

get_upcoming_matches_update(c) ==
    /\ pc[c] = "gum_update"
    /\ Writes(c, MarkSent(View(c), DOMAIN frame[c].matches), "gum_commit")

(* conn.commit(); return matches *)
get_upcoming_matches_commit(c) ==
    /\ pc[c] = "gum_commit"
    /\ Commits(c)
    /\ pc' = [pc EXCEPT ![c] = "cmr_loop"]
    /\ frame' = [frame EXCEPT ![c].todo = DOMAIN frame[c].matches]
    /\ returned' = [m \in DOMAIN returned |->
                       IF m \in DOMAIN frame[c].matches THEN returned[m] + 1
                       ELSE returned[m]]
    /\ UNCHANGED <<calls, faults, okCount, lastTo, now, sends, host>>

----------------------------------------------------------------------------
(* check_match_reminders: the body of the loop over the returned matches. *)

(* Who is sent the reminder for a club row.  With a role_id: the members of the
   role in the first guild that has the role, nobody if no guild has it.
   Without: the owner, if get_user finds the owner and, for team2, unless the
   owner is team1's owner. *)
RoleMembers(role_id) ==
    LET has == {g \in DOMAIN Guilds : role_id \in DOMAIN Guilds[g]}
    IN  IF has = {} THEN {}
        ELSE Guilds[CHOOSE g \in has : \A h \in has : g <= h][role_id]

Audience(club, skipOwner) ==
    IF club.role_id # NULL THEN RoleMembers(club.role_id)
    ELSE IF club.owner_id \in CachedUsers /\ club.owner_id # skipOwner
         THEN {club.owner_id} ELSE {}

(* A set as a sequence, in increasing order. *)
RECURSIVE InOrder(_)
InOrder(S) ==
    IF S = {} THEN <<>>
    ELSE LET x == CHOOSE y \in S : \A z \in S : y <= z
         IN  <<x>> \o InOrder(S \ {x})

SendsTo(m, side, S) == [i \in DOMAIN InOrder(S) |-> <<m, side, InOrder(S)[i]>>]

(* Plan with a club that is missing left out instead of the iteration given up. *)
PlanOneSided(c, m) ==
    LET row == frame[c].matches[m]
        clubs == View(c).clubs
    IN  IF ~HasTimestamp(row.match_time) THEN <<>>
        ELSE (IF row.team1_id \in DOMAIN clubs
              THEN SendsTo(m, 1, Audience(clubs[row.team1_id], NULL)) ELSE <<>>)
             \o (IF row.team2_id \in DOMAIN clubs
                  THEN SendsTo(m, 2, Audience(clubs[row.team2_id], NULL)) ELSE <<>>)

(* The sends an iteration for match m (row) goes through, in order, when none
   of them raises, with clubs1 the clubs table the first lookup reads and
   clubs2 the one the second lookup reads: none at all when a club row is
   missing (dict(cursor.fetchone()) raises TypeError) or when the match_time
   has no timestamp() (AttributeError while the embed is built). *)
PlanAt(m, row, clubs1, clubs2) ==
    IF /\ row.team1_id \in DOMAIN clubs1
       /\ row.team2_id \in DOMAIN clubs2
       /\ HasTimestamp(row.match_time)
    THEN SendsTo(m, 1, Audience(clubs1[row.team1_id], NULL))
         \o SendsTo(m, 2, Audience(clubs2[row.team2_id], clubs1[row.team1_id].owner_id))
    ELSE <<>>

(* The exception the iteration raises before its first send. *)
LookupErrorAt(row, clubs1, clubs2) ==
    IF row.team1_id \notin DOMAIN clubs1 \/ row.team2_id \notin DOMAIN clubs2
    THEN "TypeError"
    ELSE IF ~HasTimestamp(row.match_time) THEN "AttributeError" ELSE "none"

(* The same when nothing is written between the two lookups. *)
Plan(c, m) == PlanAt(m, frame[c].matches[m], View(c).clubs, View(c).clubs)

LookupError(c, m) == LookupErrorAt(frame[c].matches[m], View(c).clubs, View(c).clubs)

(* With the sends ending as o says, the number of sends made: all of them, or
   up to the first whose exception the handler around the send does not catch. *)
Made(o) ==
    LET stops == {i \in DOMAIN o : o[i] \notin CaughtPerSend \cup {"ok"}}
    IN  IF stops = {} THEN Len(o) ELSE CHOOSE i \in stops : \A j \in stops : i <= j

(* check_match_reminders_match with one try around the whole loop: the first
   failure ends the tick's loop. *)
check_match_reminders_match_outer(c, m) ==
    /\ pc[c] = "cmr_loop"
    /\ m \in frame[c].todo
    /\ \E o \in [DOMAIN Plan(c, m) -> SendOutcomes] :
           LET n == Made(o)
               err == IF LookupError(c, m) # "none" THEN LookupError(c, m)
                      ELSE IF n > 0 /\ o[n] \notin CaughtPerSend \cup {"ok"}
                      THEN o[n] ELSE "none"
           IN  /\ sends' = sends \o [i \in 1..n |-> Append(Plan(c, m)[i], o[i])]
               /\ frame' = [frame EXCEPT
                      ![c].todo = IF err = "none" THEN @ \ {m} ELSE {},
                      ![c].handled = [x \in DOMAIN @ \cup {m} |->
                                         IF x = m THEN err ELSE @[x]]]
    /\ UNCHANGED <<db, tx, pc, calls, faults, dirty, leaked, okCount, lastTo,
                   now, returned, host>>

(* One iteration for match m.  Each send is in a try that catches
   discord.Forbidden only; any other exception of a send, like the TypeError
   and AttributeError before the sends, goes to the iteration's
   `except Exception`, which logs it (handled) and goes on to the next match. *)
check_match_reminders_match(c, m) ==
    /\ pc[c] = "cmr_loop"
    /\ m \in frame[c].todo
    /\ \E o \in [DOMAIN Plan(c, m) -> SendOutcomes] :
           LET n == Made(o)
               err == IF LookupError(c, m) # "none" THEN LookupError(c, m)
                      ELSE IF n > 0 /\ o[n] \notin CaughtPerSend \cup {"ok"}
                      THEN o[n] ELSE "none"
           IN  /\ sends' = sends \o [i \in 1..n |-> Append(Plan(c, m)[i], o[i])]
               /\ frame' = [frame EXCEPT
                      ![c].todo = @ \ {m},
                      ![c].handled = [x \in DOMAIN @ \cup {m} |->
                                         IF x = m THEN err ELSE @[x]]]
    /\ UNCHANGED <<db, tx, pc, calls, faults, dirty, leaked, okCount, lastTo,
                   now, returned, host>>

(* The iteration with its two club lookups as separate steps, which shows
   what the other thread writes between them.  First
   team1_data = dict(cursor.fetchone()): TypeError when the row is gone. *)
check_match_reminders_team1(c, m) ==
    /\ pc[c] = "cmr_loop"
    /\ m \in frame[c].todo
    /\ LET team1 == frame[c].matches[m].team1_id
       IN  IF team1 \in DOMAIN View(c).clubs
           THEN /\ frame' = [frame EXCEPT ![c].cur = m,
                                          ![c].team1_data = <<View(c).clubs[team1]>>]
                /\ pc' = [pc EXCEPT ![c] = "cmr_team2"]
           ELSE /\ frame' = [frame EXCEPT
                        ![c].todo = @ \ {m},
                        ![c].handled = [x \in DOMAIN @ \cup {m} |->
                                           IF x = m THEN "TypeError" ELSE @[x]]]
                /\ pc' = pc
    /\ UNCHANGED <<db, tx, calls, faults, dirty, leaked, okCount, lastTo, sched>>

(* The clubs table as the first lookup of c's iteration gave it. *)
Team1Clubs(c) ==
    [k \in {frame[c].matches[frame[c].cur].team1_id} |-> frame[c].team1_data[1]]

(* Then team2_data = dict(cursor.fetchone()), the embed and the sends. *)
check_match_reminders_team2(c) ==
    /\ pc[c] = "cmr_team2"
    /\ LET m == frame[c].cur
           row == frame[c].matches[m]
           plan == PlanAt(m, row, Team1Clubs(c), View(c).clubs)
           lookup == LookupErrorAt(row, Team1Clubs(c), View(c).clubs)
       IN  \E o \in [DOMAIN plan -> SendOutcomes] :
               LET n == Made(o)
                   err == IF lookup # "none" THEN lookup
                          ELSE IF n > 0 /\ o[n] \notin CaughtPerSend \cup {"ok"}
                          THEN o[n] ELSE "none"
               IN  /\ sends' = sends \o [i \in 1..n |-> Append(plan[i], o[i])]
                   /\ frame' = [frame EXCEPT
                          ![c].todo = @ \ {m},
                          ![c].cur = NULL,
                          ![c].team1_data = <<>>,
                          ![c].handled = [x \in DOMAIN @ \cup {m} |->
                                             IF x = m THEN err ELSE @[x]]]
    /\ pc' = [pc EXCEPT ![c] = "cmr_loop"]
    /\ UNCHANGED <<db, tx, calls, faults, dirty, leaked, okCount, lastTo,
                   now, returned, host>>

(* The loop is through: the iteration of tasks.loop ends. *)
check_match_reminders_done(c) ==
    /\ pc[c] = "cmr_loop"
    /\ frame[c].todo = {}
    /\ Returns(c, TRUE, db)
    /\ UNCHANGED <<db, tx, calls, faults, dirty, leaked, okCount, lastTo, sched>>

----------------------------------------------------------------------------
(* The lifecycle of a FootballBot: setup_hook, the ready event, the loop's
   before_loop and close.  discord.ext.tasks runs check_match_reminders in one
   task: first before_loop, then the body once per minute.  Loop.cancel()
   cancels that task: asyncio raises CancelledError in it at the await it is
   suspended in.  CancelledError is a BaseException, which neither
   `except discord.Forbidden` nor `except Exception` catches. *)

BotNew == [task |-> "unstarted", setup |-> FALSE, ready |-> FALSE, closed |-> FALSE]

(* A bot whose loop is running. *)
BotLooping == [task |-> "looping", setup |-> TRUE, ready |-> TRUE, closed |-> FALSE]

(* setup_hook: the cogs are added and the loop is started; an exception of
   add_cog is logged and the loop is not started (ok = FALSE). *)
setup_hook(c, ok) ==
    /\ ~bot[c].setup
    /\ ~bot[c].closed
    /\ bot' = [bot EXCEPT ![c].setup = TRUE,
                          ![c].task = IF ok THEN "before_loop" ELSE @]
    /\ UNCHANGED <<db, tx, pc, frame, calls, faults, dirty, leaked, okCount, lastTo,
                   now, returned, sends, req, boot, web, view>>

(* The gateway's READY has been handled: the client's ready event is set and
   on_ready is dispatched.  start() connects only after setup_hook. *)
on_ready(c) ==
    /\ bot[c].setup
    /\ ~bot[c].ready
    /\ ~bot[c].closed
    /\ bot' = [bot EXCEPT ![c].ready = TRUE]
    /\ UNCHANGED <<db, tx, pc, frame, calls, faults, dirty, leaked, okCount, lastTo,
                   now, returned, sends, req, boot, web, view>>

(* A before_loop that does not wait for the ready event. *)
before_check_match_reminders_no_wait(c) ==
    /\ bot[c].task = "before_loop"
    /\ bot' = [bot EXCEPT ![c].task = "looping"]
    /\ UNCHANGED <<db, tx, pc, frame, calls, faults, dirty, leaked, okCount, lastTo,
                   now, returned, sends, req, boot, web, view>>

(* before_loop: await self.wait_until_ready() *)
before_check_match_reminders(c) ==
    /\ bot[c].task = "before_loop"
    /\ bot[c].ready
    /\ bot' = [bot EXCEPT ![c].task = "looping"]
    /\ UNCHANGED <<db, tx, pc, frame, calls, faults, dirty, leaked, okCount, lastTo,
                   now, returned, sends, req, boot, web, view>>

(* The loop starts an iteration: the body's first statement is the call of
   get_upcoming_matches. *)
check_match_reminders_tick(c) ==
    /\ bot[c].task = "looping"
    /\ get_upcoming_matches_select(c)

(* close() between two iterations: the loop's task is cancelled in its sleep. *)
close(c) ==
    /\ pc[c] = "idle"
    /\ ~bot[c].closed
    /\ bot' = [bot EXCEPT ![c].closed = TRUE,
                          ![c].task = IF @ \in {"before_loop", "looping"}
                                      THEN "cancelled" ELSE @]
    /\ UNCHANGED <<db, tx, pc, frame, calls, faults, dirty, leaked, okCount, lastTo,
                   now, returned, sends, req, boot, web, view>>

(* close() while an iteration is in flight.  The event loop runs close() only
   while the body is suspended, and the body's only awaits are its sends: the
   body stands at send i of the iteration for match m, the sends before it
   having ended without leaving the iteration.  cancel() raises CancelledError
   at that await; it leaves the body, which makes no further send, neither
   for m nor for the matches still to do. *)
close_in_flight(c, m) ==
    /\ pc[c] = "cmr_loop"
    /\ m \in frame[c].todo
    /\ ~bot[c].closed
    /\ bot[c].task = "looping"
    /\ \E i \in DOMAIN Plan(c, m) :
           \E o \in [1..(i - 1) -> CaughtPerSend \cup {"ok"}] :
               sends' = sends \o [j \in 1..i |->
                                     Append(Plan(c, m)[j],
                                            IF j < i THEN o[j] ELSE "CancelledError")]
    /\ bot' = [bot EXCEPT ![c].closed = TRUE, ![c].task = "cancelled"]
    /\ pc' = [pc EXCEPT ![c] = "ret"]
    /\ frame' = [frame EXCEPT
           ![c].result = FALSE,
           ![c].error = "CancelledError",
           ![c].todo = @ \ {m},
           ![c].handled = [x \in DOMAIN @ \cup {m} |->
                              IF x = m THEN "CancelledError" ELSE @[x]]]
    /\ UNCHANGED <<db, tx, calls, faults, dirty, leaked, okCount, lastTo,
                   now, returned, req, boot, web, view>>

(* @tasks.loop(minutes=2): the loop sleeps two minutes. *)
check_match_reminders_sleep_two_minutes(c) ==
    /\ pc[c] = "ret"
    /\ frame[c].op = "check_match_reminders"
    /\ now + 1 < MaxTime
    /\ now' = now + 2
    /\ pc' = [pc EXCEPT ![c] = "idle"]
    /\ frame' = [frame EXCEPT ![c] = IdleFrame]
    /\ UNCHANGED <<db, tx, calls, faults, dirty, leaked, okCount, lastTo,
                   returned, sends, host>>

(* @tasks.loop(minutes=1): the iteration is over and the loop sleeps until
   the next one is due, a minute after this one. *)
check_match_reminders_sleep(c) ==
    /\ pc[c] = "ret"
    /\ frame[c].op = "check_match_reminders"
    /\ now < MaxTime
    /\ now' = now + 1
    /\ pc' = [pc EXCEPT ![c] = "idle"]
    /\ frame' = [frame EXCEPT ![c] = IdleFrame]
    /\ UNCHANGED <<db, tx, calls, faults, dirty, leaked, okCount, lastTo,
                   returned, sends, host>>

(* A minute passes. *)
AdvanceClock ==
    /\ now < MaxTime
    /\ now' = now + 1
    /\ UNCHANGED <<db, tx, pc, frame, calls, faults, dirty, leaked, okCount, lastTo,
                   returned, sends, host>>

----------------------------------------------------------------------------
(* The HTTP rate limiter and the bootstrap, at rest. *)

(* make_request(method, url) of RateLimitHandler, for one url.  Times are
   kept as the seconds left until them: the reset time T of a response is
   T - time.time(), the end of a sleep its remaining seconds. *)

(* max_retries = 3, base_delay = 1 *)
MaxRetries == 3
BaseDelay == 1

(* The coroutines that call make_request; their calls may overlap. *)
Callers == {1, 2}

(* The urls the calls are made to. *)
Urls == {"U", "V"}

(* How far ahead of a response the reset time of its X-RateLimit-Reset header
   lies, and the number of seconds its Retry-After header gives. *)
ResetAhead == 3
RetryAfterSeconds == 1

(* The Retry-After header of a response: absent, a number of seconds, or an
   HTTP-date (RFC 9110 allows both forms). *)
RetryAfterForms == {"absent", "seconds", "date"}

(* A caller's call: attempt is the loop variable, wake the seconds its sleep
   has left, made the number of requests it has issued, outcome and retry_after
   what its last request ended with. *)
NoCall == [pc |-> "idle", url |-> "none", attempt |-> 0, wake |-> 0, made |-> 0,
           outcome |-> "none", retry_after |-> "absent", result |-> "none"]

(* The handler before any call: rate_limit_reset holds the entry of each url,
   in seconds from now (0: none, or passed), carried the latest reset time a
   response for the url has carried, likewise. *)
ReqIdle == [rate_limit_reset |-> [u \in Urls |-> 0], carried |-> [u \in Urls |-> 0],
            call |-> [i \in Callers |-> NoCall]]

RECURSIVE Power2(_)
Power2(n) == IF n = 0 THEN 1 ELSE 2 * Power2(n - 1)

(* for attempt in range(max_retries): the first pass *)
make_request_call(i, url) ==
    /\ req.call[i].pc = "idle"
    /\ req' = [req EXCEPT !.call[i].pc = "check", !.call[i].url = url]
    /\ UNCHANGED <<db, tx, pc, frame, calls, faults, dirty, leaked, okCount, lastTo,
                   now, returned, sends, bot, boot, web, view>>

(* _check_rate_limit with one reset time for all urls: the call sleeps while
   the reset time of any url is ahead. *)
make_request_check_any_url(i) ==
    /\ req.call[i].pc = "check"
    /\ LET latest == CHOOSE t \in {req.rate_limit_reset[u] : u \in Urls} :
                         \A u \in Urls : req.rate_limit_reset[u] <= t
       IN  req' = IF latest > 0
                  THEN [req EXCEPT !.call[i].pc = "check_sleep",
                                   !.call[i].wake = latest]
                  ELSE [req EXCEPT !.call[i].pc = "await", !.call[i].made = @ + 1]
    /\ UNCHANGED <<db, tx, pc, frame, calls, faults, dirty, leaked, okCount, lastTo,
                   now, returned, sends, bot, boot, web, view>>

(* await self._check_rate_limit(url), then session.request: with the reset
   time of the url ahead (current_time < self.rate_limit_reset[url]) the call
   sleeps until then, otherwise the request is issued. *)
make_request_check(i) ==
    /\ req.call[i].pc = "check"
    /\ req' = IF req.rate_limit_reset[req.call[i].url] > 0
              THEN [req EXCEPT !.call[i].pc = "check_sleep",
                               !.call[i].wake = req.rate_limit_reset[req.call[i].url]]
              ELSE [req EXCEPT !.call[i].pc = "await", !.call[i].made = @ + 1]
    /\ UNCHANGED <<db, tx, pc, frame, calls, faults, dirty, leaked, okCount, lastTo,
                   now, returned, sends, bot, boot, web, view>>

(* The sleep of _check_rate_limit is over: the request is issued, the reset
   time is not looked at again. *)
make_request_wake(i) ==
    /\ req.call[i].pc = "check_sleep"
    /\ req.call[i].wake = 0
    /\ req' = [req EXCEPT !.call[i].pc = "await", !.call[i].made = @ + 1]
    /\ UNCHANGED <<db, tx, pc, frame, calls, faults, dirty, leaked, okCount, lastTo,
                   now, returned, sends, bot, boot, web, view>>

(* A response arrives.  _update_rate_limit_info stores the reset time of an
   X-RateLimit-Reset header under the url (reset: whether the response has
   one).  On 429
   float(Retry-After or base_delay * 2 ** attempt) is slept, and float() of an
   HTTP-date raises ValueError, which leaves make_request; any other status is
   returned. *)
make_request_response(i, status, reset, retry) ==
    /\ req.call[i].pc = "await"
    /\ LET k == req.call[i].attempt
           seconds == IF retry = "seconds" THEN RetryAfterSeconds
                      ELSE BaseDelay * Power2(k)
           url == req.call[i].url
           seen == [req EXCEPT !.rate_limit_reset[url] = IF reset THEN ResetAhead ELSE @,
                               !.carried[url] = IF reset THEN ResetAhead ELSE @]
       IN  req' = IF status # 429
                  THEN [seen EXCEPT !.call[i].pc = "done",
                                    !.call[i].outcome = "response",
                                    !.call[i].retry_after = "absent",
                                    !.call[i].result = "response"]
                  ELSE IF retry = "date"
                  THEN [seen EXCEPT !.call[i].pc = "done",
                                    !.call[i].outcome = "429",
                                    !.call[i].retry_after = retry,
                                    !.call[i].result = "ValueError"]
                  ELSE [seen EXCEPT !.call[i].pc = "retry_sleep",
                                    !.call[i].outcome = "429",
                                    !.call[i].retry_after = retry,
                                    !.call[i].wake = seconds]
    /\ UNCHANGED <<db, tx, pc, frame, calls, faults, dirty, leaked, okCount, lastTo,
                   now, returned, sends, bot, boot, web, view>>

(* The request raises an aiohttp.ClientError: raised on at the last attempt,
   else base_delay * 2 ** attempt is slept. *)
make_request_client_error(i) ==
    /\ req.call[i].pc = "await"
    /\ LET k == req.call[i].attempt
       IN  req' = IF k = MaxRetries - 1
                  THEN [req EXCEPT !.call[i].pc = "done",
                                   !.call[i].outcome = "ClientError",
                                   !.call[i].retry_after = "absent",
                                   !.call[i].result = "ClientError"]
                  ELSE [req EXCEPT !.call[i].pc = "retry_sleep",
                                   !.call[i].outcome = "ClientError",
                                   !.call[i].retry_after = "absent",
                                   !.call[i].wake = BaseDelay * Power2(k)]
    /\ UNCHANGED <<db, tx, pc, frame, calls, faults, dirty, leaked, okCount, lastTo,
                   now, returned, sends, bot, boot, web, view>>

(* The request runs into the session's total timeout: aiohttp raises
   asyncio.TimeoutError, which is no aiohttp.ClientError and leaves
   make_request. *)
make_request_timeout(i) ==
    /\ req.call[i].pc = "await"
    /\ req' = [req EXCEPT !.call[i].pc = "done",
                          !.call[i].outcome = "TimeoutError",
                          !.call[i].retry_after = "absent",
                          !.call[i].result = "TimeoutError"]
    /\ UNCHANGED <<db, tx, pc, frame, calls, faults, dirty, leaked, okCount, lastTo,
                   now, returned, sends, bot, boot, web, view>>

(* The sleep after a 429 or a ClientError is over: the next pass of the loop,
   or after the last pass raise aiohttp.ClientError("Max retries exceeded"). *)
make_request_retry(i) ==
    /\ req.call[i].pc = "retry_sleep"
    /\ req.call[i].wake = 0
    /\ req' = IF req.call[i].attempt + 1 < MaxRetries
              THEN [req EXCEPT !.call[i].attempt = @ + 1, !.call[i].pc = "check"]
              ELSE [req EXCEPT !.call[i].attempt = @ + 1, !.call[i].pc = "done",
                               !.call[i].result = "Max retries exceeded"]
    /\ UNCHANGED <<db, tx, pc, frame, calls, faults, dirty, leaked, okCount, lastTo,
                   now, returned, sends, bot, boot, web, view>>

(* A second passes, while a sleep or a reset time is ahead. *)
asyncio_sleep ==
    /\ \/ \E u \in Urls : req.carried[u] > 0
       \/ \E i \in Callers : req.call[i].wake > 0
    /\ req' = [req EXCEPT
           !.rate_limit_reset = [u \in Urls |-> IF @[u] > 0 THEN @[u] - 1 ELSE 0],
           !.carried = [u \in Urls |-> IF @[u] > 0 THEN @[u] - 1 ELSE 0],
           !.call = [i \in Callers |->
                        [@[i] EXCEPT !.wake = IF @ > 0 THEN @ - 1 ELSE 0]]]
    /\ UNCHANGED <<db, tx, pc, frame, calls, faults, dirty, leaked, okCount, lastTo,
                   now, returned, sends, bot, boot, web, view>>

----------------------------------------------------------------------------
(* start_bot_with_retry(bot, token, retries=5) of create_app. *)

(* retries=5, delay = 5, random.randint(0,5) *)
Retries == 5
InitialDelay == 5
MaxJitter == 5

(* Before the call: attempt is the loop variable, delay the local of that
   name, started the number of bot.start calls made and waits the sleeps
   taken, in order. *)
BootIdle ==
    [pc |-> "idle", attempt |-> 0, delay |-> 0, started |-> 0, waits |-> <<>>,
     result |-> "none"]

start_bot_with_retry_call ==
    /\ boot.pc = "idle"
    /\ boot' = [boot EXCEPT !.pc = "start", !.delay = InitialDelay]
    /\ UNCHANGED <<db, tx, pc, frame, calls, faults, dirty, leaked, okCount, lastTo,
                   now, returned, sends, bot, req, web, view>>

(* One pass of the loop without `if attempt < retries - 1`: every failure is
   followed by a wait. *)
start_bot_with_retry_attempt_always_waits(ok, jitter) ==
    /\ boot.pc = "start"
    /\ boot.attempt < Retries
    /\ boot' = IF ok
               THEN [boot EXCEPT !.started = @ + 1, !.pc = "done", !.result = "returned"]
               ELSE [boot EXCEPT !.started = @ + 1,
                                 !.waits = Append(@, boot.delay + jitter),
                                 !.delay = @ * 2,
                                 !.attempt = @ + 1,
                                 !.pc = IF boot.attempt + 1 < Retries
                                        THEN "start" ELSE "done",
                                 !.result = IF boot.attempt + 1 < Retries
                                            THEN @ ELSE "failed"]
    /\ UNCHANGED <<db, tx, pc, frame, calls, faults, dirty, leaked, okCount, lastTo,
                   now, returned, sends, bot, req, web, view>>

(* One pass of the loop: await bot.start(token); return, or on an Exception,
   unless this was the last attempt, sleep delay + random.randint(0, 5) and
   double the delay. *)
start_bot_with_retry_attempt(ok, jitter) ==
    /\ boot.pc = "start"
    /\ boot.attempt < Retries
    /\ boot' = IF ok
               THEN [boot EXCEPT !.started = @ + 1, !.pc = "done", !.result = "returned"]
               ELSE IF boot.attempt < Retries - 1
               THEN [boot EXCEPT !.started = @ + 1,
                                 !.waits = Append(@, boot.delay + jitter),
                                 !.delay = @ * 2,
                                 !.attempt = @ + 1]
               ELSE [boot EXCEPT !.started = @ + 1, !.attempt = @ + 1,
                                 !.pc = "done", !.result = "failed"]
    /\ UNCHANGED <<db, tx, pc, frame, calls, faults, dirty, leaked, okCount, lastTo,
                   now, returned, sends, bot, req, web, view>>

----------------------------------------------------------------------------
(* The starts of bots in one process: start_discord_bot on the thread that
   each create_app call spawns, and BotManager.start_bot. *)

(* The create_app calls of a process started as `python main.py`, by the
   names their results get: app = create_app() at import, and self.flask_app =
   create_app() in BotManager.start_web_server. *)
Starters == {"app", "flask_app"}

(* The owners a FootballBot can have: a thread of create_app, or BotManager. *)
Owners == Starters \cup {"manager"}

(* The module state of web_server at import (bot_started = False, bot_lock
   free), no create_app call made, BotManager not started; token tells
   whether DISCORD_TOKEN is set; bots holds the owners whose FootballBot() was
   constructed, loops those whose check_match_reminders loop was started. *)
WebIdle ==
    [bot_started |-> FALSE, bot_lock |-> "free", token |-> TRUE,
     thread |-> [t \in Starters |-> "new"], manager |-> "new",
     bots |-> {}, loops |-> {}]

WebStep(w) ==
    /\ web' = w
    /\ UNCHANGED <<db, tx, pc, frame, calls, faults, dirty, leaked, okCount, lastTo,
                   now, returned, sends, bot, req, boot, view>>

(* bot_thread = threading.Thread(target=start_discord_bot, daemon=True);
   bot_thread.start().  The call at import comes first. *)
create_app(t) ==
    /\ web.thread[t] = "new"
    /\ t = "flask_app" => web.thread["app"] # "new"
    /\ WebStep([web EXCEPT !.thread[t] = "with"])

(* `with bot_lock:` entered without waiting for the lock. *)
start_discord_bot_acquire_no_wait(t) ==
    /\ web.thread[t] = "with"
    /\ WebStep([web EXCEPT !.thread[t] = "if"])

(* with bot_lock: the thread waits until the lock is free and takes it. *)
start_discord_bot_acquire(t) ==
    /\ web.thread[t] = "with"
    /\ web.bot_lock = "free"
    /\ WebStep([web EXCEPT !.bot_lock = t, !.thread[t] = "if"])

(* if bot_started: return (the lock is released on the way out) *)
start_discord_bot_test(t) ==
    /\ web.thread[t] = "if"
    /\ WebStep(IF web.bot_started
               THEN [web EXCEPT !.bot_lock = "free", !.thread[t] = "skipped"]
               ELSE [web EXCEPT !.thread[t] = "set"])

(* bot_started = True, and the end of the with block *)
start_discord_bot_set(t) ==
    /\ web.thread[t] = "set"
    /\ WebStep([web EXCEPT !.bot_started = TRUE, !.bot_lock = "free", !.thread[t] = "sleep"])

(* time.sleep(30); without DISCORD_TOKEN the function returns, else
   bot = FootballBot() *)
start_discord_bot_construct(t) ==
    /\ web.thread[t] = "sleep"
    /\ WebStep(IF web.token
               THEN [web EXCEPT !.thread[t] = "start", !.bots = @ \cup {t}]
               ELSE [web EXCEPT !.thread[t] = "no_token"])

(* BotManager.start_bot, which run() starts after start_web_server:
   self.bot = FootballBot(); without DISCORD_TOKEN ValueError is raised and
   caught, else bot.start follows. *)
start_bot_construct ==
    /\ web.manager = "new"
    /\ web.thread["flask_app"] # "new"
    /\ WebStep([web EXCEPT !.bots = @ \cup {"manager"},
                           !.manager = IF web.token THEN "start" ELSE "no_token"])

(* bot.start(token) runs setup_hook, which starts check_match_reminders. *)
bot_start(o) ==
    /\ o \in web.bots \ web.loops
    /\ IF o = "manager" THEN web.manager = "start" ELSE web.thread[o] = "start"
    /\ WebStep(IF o = "manager"
               THEN [web EXCEPT !.loops = @ \cup {o}, !.manager = "running"]
               ELSE [web EXCEPT !.loops = @ \cup {o}, !.thread[o] = "running"])

----------------------------------------------------------------------------
(* Failures of the store. *)

WritePcs == {"tp_update", "tp_insert", "tp_credit", "tp_debit", "tp_commit",
             "dc_matches", "dc_players", "dc_club", "dc_commit",
             "rs_matches", "rs_players", "rs_clubs", "rs_sequence", "rs_commit",
             "gum_update", "gum_commit", "cm_insert",
             "cp_insert", "cp_commit", "uv_update", "uv_commit",
             "cc_insert", "cc_commit", "um_update", "um_commit", "ur_update", "ur_commit"}

(* The first write of a transaction finds the write lock held by another
   connection until the busy timeout: sqlite3.OperationalError, database is locked. *)
Busy(c) ==
    /\ pc[c] \in {"tp_update", "gum_update", "cc_insert", "um_update", "ur_update",
                 "cm_insert", "cp_insert", "uv_update"}
    /\ ~LockFree(c)
    /\ Raises(c, tx[c], "database is locked")
    /\ UNCHANGED <<calls, faults>>

(* delete_club's first statement is a write: the same, for a call that starts. *)
delete_club_busy(c, club) ==
    /\ pc[c] = "idle"
    /\ calls < MaxCalls
    /\ ~LockFree(c)
    /\ calls' = calls + 1
    /\ pc' = [pc EXCEPT ![c] = "ret"]
    /\ frame' = [frame EXCEPT ![c] =
                    [IdleFrame EXCEPT !.op = "delete_club", !.club_id = club,
                                      !.error = "database is locked",
                                      !.pre = <<View(c)>>, !.post = <<db>>]]
    /\ UNCHANGED <<db, tx, faults, dirty, leaked, okCount, lastTo, sched>>

(* reset_all_data's first statement is a write as well. *)
reset_all_data_busy(c) ==
    /\ pc[c] = "idle"
    /\ calls < MaxCalls
    /\ ~LockFree(c)
    /\ calls' = calls + 1
    /\ pc' = [pc EXCEPT ![c] = "ret"]
    /\ frame' = [frame EXCEPT ![c] =
                    [IdleFrame EXCEPT !.op = "reset_all_data",
                                      !.error = "database is locked",
                                      !.pre = <<View(c)>>, !.post = <<db>>]]
    /\ UNCHANGED <<db, tx, faults, dirty, leaked, okCount, lastTo, sched>>

(* A statement or the commit raises for a reason of the store itself (disk full,
   I/O error, interrupted).  SQLite undoes the failing statement and either
   leaves the transaction open with the earlier statements' writes (keep) or
   rolls the whole transaction back, depending on the error. *)
StoreError(c, keep) ==
    /\ pc[c] \in WritePcs
    /\ faults < MaxFaults
    /\ faults' = faults + 1
    /\ Raises(c, IF keep THEN tx[c] ELSE <<>>, "disk I/O error")
    /\ UNCHANGED calls

----------------------------------------------------------------------------

Init ==
    /\ db = InitDb
    /\ tx = [c \in Conns |-> <<>>]
    /\ pc = [c \in Conns |-> "idle"]
    /\ frame = [c \in Conns |-> IdleFrame]
    /\ calls = 0
    /\ faults = 0
    /\ dirty = [c \in Conns |-> {}]
    /\ leaked = {}
    /\ okCount = [p \in PlayerIds |-> IF p = 1 THEN 1 ELSE 0]
    /\ lastTo = [p \in PlayerIds |-> IF p = 1 THEN 1 ELSE NULL]
    /\ now = 0
    /\ returned = [m \in {1} |-> 0]
    /\ sends = <<>>
    /\ bot = [c \in Conns |-> BotLooping]
    /\ req = ReqIdle
    /\ boot = BootIdle
    /\ web = WebIdle
    /\ view = NoView

Next ==
    \E c \in Conns :
        \/ \E p \in PlayerIds, to \in ClubIds \cup {NULL}, fee \in Fees :
               transfer_player_select(c, p, to, fee)
        \/ transfer_player_update(c)
        \/ transfer_player_insert(c)
        \/ transfer_player_credit(c)
        \/ transfer_player_debit(c)
        \/ transfer_player_commit(c)
        \/ \E club \in ClubIds : delete_club_transfers(c, club)
        \/ delete_club_matches(c)
        \/ delete_club_players(c)
        \/ delete_club_club(c)
        \/ delete_club_commit(c)
        \/ Busy(c)
        \/ \E club \in ClubIds : delete_club_busy(c, club)
        \/ \E keep \in BOOLEAN : StoreError(c, keep)
        \/ Resume(c)

Spec == Init /\ [][Next]_vars

(* Runs that consist of transfer_player calls only. *)
NextTransfers ==
    \E c \in Conns :
        \/ \E p \in PlayerIds, to \in ClubIds \cup {NULL}, fee \in Fees :
               transfer_player_select(c, p, to, fee)
        \/ transfer_player_update(c)
        \/ transfer_player_insert(c)
        \/ transfer_player_credit(c)
        \/ transfer_player_debit(c)
        \/ transfer_player_commit(c)
        \/ Busy(c)
        \/ \E keep \in BOOLEAN : StoreError(c, keep)
        \/ Resume(c)

SpecTransfers == Init /\ [][NextTransfers]_vars

(* Runs in which transfer_player is called directly. *)
NextDirect ==
    \E c \in Conns :
        \/ \E p \in DirectPlayers, to \in DirectClubs, fee \in DirectFees :
               transfer_player_select(c, p, to, fee)
        \/ transfer_player_update(c)
        \/ transfer_player_insert(c)
        \/ transfer_player_credit(c)
        \/ transfer_player_debit(c)
        \/ transfer_player_commit(c)
        \/ Busy(c)
        \/ \E keep \in BOOLEAN : StoreError(c, keep)
        \/ Resume(c)

SpecDirect == Init /\ [][NextDirect]_vars

(* Runs of the club registry: clubs are created, updated and deleted. *)
NextClubs ==
    \E c \in Conns :
        \/ \E name \in ClubNames, owner \in OwnerIds, money \in Moneys, role \in RoleIds :
               create_club_call(c, name, owner, money, role)
        \/ create_club_insert(c)
        \/ create_club_commit(c)
        \/ \E club \in ClubTargets, money \in Moneys : update_club_money_call(c, club, money)
        \/ update_club_money_update(c)
        \/ update_club_money_commit(c)
        \/ \E club \in ClubTargets, role \in RoleIds : update_club_role_call(c, club, role)
        \/ update_club_role_update(c)
        \/ update_club_role_commit(c)
        \/ \E club \in {1, 2} : delete_club_transfers(c, club)
        \/ delete_club_matches(c)
        \/ delete_club_players(c)
        \/ delete_club_club(c)
        \/ delete_club_commit(c)
        \/ Busy(c)
        \/ \E club \in {1, 2} : delete_club_busy(c, club)
        \/ \E keep \in BOOLEAN : StoreError(c, keep)
        \/ Resume(c)

SpecClubs == Init /\ [][NextClubs]_vars

(* Runs of the reminder scheduler: the loops of the bots tick, matches are
   created and clubs deleted, and time passes. *)
NextReminder ==
    \/ AdvanceClock
    \/ \E c \in Conns :
        \/ get_upcoming_matches_select(c)
        \/ get_upcoming_matches_update(c)
        \/ get_upcoming_matches_commit(c)
        \/ \E m \in frame[c].todo : check_match_reminders_match(c, m)
        \/ check_match_reminders_done(c)
        \/ \E f \in Fixtures :
               \E t \in {now + 1, now + LookaheadMinutes, now + LookaheadMinutes + 1} :
                   create_match(c, f[1], f[2], t)
        \/ \E club \in ClubIds : delete_club_transfers(c, club)
        \/ delete_club_matches(c)
        \/ delete_club_players(c)
        \/ delete_club_club(c)
        \/ delete_club_commit(c)
        \/ Busy(c)
        \/ \E club \in ClubIds : delete_club_busy(c, club)
        \/ \E keep \in BOOLEAN : StoreError(c, keep)
        \/ Resume(c)

SpecReminder == Init /\ [][NextReminder]_vars

(* The rows the fan-out of check_match_reminders is exercised on: club 1
   notifies a role with two members, club 2 its owner, club 3 a role without
   members; two matches inside the lookahead window.  The match_time is given
   both as the text the store gives back and as the datetime the column is
   declared to hold: only with the latter does an iteration get to its sends. *)
FanOutDb(type) ==
    [InitDb EXCEPT
        !.clubs = [k \in ClubIds |->
                      [ClubRow(k) EXCEPT !.role_id = IF k = 1 THEN 7
                                                     ELSE IF k = 3 THEN 8 ELSE NULL]],
        !.matches = [m \in {1, 2} |->
                        [team1_id |-> IF m = 1 THEN 1 ELSE 3,
                         team2_id |-> IF m = 1 THEN 2 ELSE 1,
                         match_time |-> [type |-> type, minute |-> 1],
                         reminder_sent |-> FALSE, created_at |-> 0]],
        !.seq.matches = 2]

InitFanOut ==
    /\ db \in {FanOutDb(IsoText(1).type), FanOutDb(DateTime(1).type)}
    /\ tx = [c \in Conns |-> <<>>]
    /\ pc = [c \in Conns |-> "idle"]
    /\ frame = [c \in Conns |-> IdleFrame]
    /\ calls = 0
    /\ faults = 0
    /\ dirty = [c \in Conns |-> {}]
    /\ leaked = {}
    /\ okCount = [p \in PlayerIds |-> IF p = 1 THEN 1 ELSE 0]
    /\ lastTo = [p \in PlayerIds |-> IF p = 1 THEN 1 ELSE NULL]
    /\ now = 0
    /\ returned = [m \in {1, 2} |-> 0]
    /\ sends = <<>>
    /\ bot = [c \in Conns |-> BotLooping]
    /\ req = ReqIdle
    /\ boot = BootIdle
    /\ web = WebIdle
    /\ view = NoView

(* Runs of the fan-out: the bot's loop ticks on its thread, and a club is
   deleted under it from the other thread. *)
NextFanOut ==
    \/ get_upcoming_matches_select("bot_thread")
    \/ get_upcoming_matches_update("bot_thread")
    \/ get_upcoming_matches_commit("bot_thread")
    \/ \E m \in frame["bot_thread"].todo : check_match_reminders_match("bot_thread", m)
    \/ check_match_reminders_done("bot_thread")
    \/ delete_club_transfers("main", 2)
    \/ delete_club_matches("main")
    \/ delete_club_players("main")
    \/ delete_club_club("main")
    \/ delete_club_commit("main")
    \/ delete_club_busy("main", 2)
    \/ \E c \in Conns :
           \/ Busy(c)
           \/ \E keep \in BOOLEAN : StoreError(c, keep)
           \/ Resume(c)

SpecFanOut == InitFanOut /\ [][NextFanOut]_vars

(* Runs of the lookup race: the bot's loop ticks on its thread with the two
   club lookups of an iteration as separate steps, while on the other thread
   an administrator resets the data and creates clubs anew, whose ids start
   over at 1.  The match_time is given both ways, as in InitFanOut. *)
InitRace ==
    /\ db \in {InitDb, [InitDb EXCEPT !.matches[1].match_time = DateTime(1)]}
    /\ tx = [c \in Conns |-> <<>>]
    /\ pc = [c \in Conns |-> "idle"]
    /\ frame = [c \in Conns |-> IdleFrame]
    /\ calls = MaxCalls - RaceCalls
    /\ faults = 0
    /\ dirty = [c \in Conns |-> {}]
    /\ leaked = {}
    /\ okCount = [p \in PlayerIds |-> IF p = 1 THEN 1 ELSE 0]
    /\ lastTo = [p \in PlayerIds |-> IF p = 1 THEN 1 ELSE NULL]
    /\ now = 0
    /\ returned = [m \in {1} |-> 0]
    /\ sends = <<>>
    /\ bot = [c \in Conns |-> BotLooping]
    /\ req = ReqIdle
    /\ boot = BootIdle
    /\ web = WebIdle
    /\ view = NoView

NextRace ==
    \/ get_upcoming_matches_select("bot_thread")
    \/ get_upcoming_matches_update("bot_thread")
    \/ get_upcoming_matches_commit("bot_thread")
    \/ \E m \in frame["bot_thread"].todo : check_match_reminders_team1("bot_thread", m)
    \/ check_match_reminders_team2("bot_thread")
    \/ check_match_reminders_done("bot_thread")
    \/ reset_all_data_transfers("main")
    \/ reset_all_data_matches("main")
    \/ reset_all_data_players("main")
    \/ reset_all_data_clubs("main")
    \/ reset_all_data_sequence("main")
    \/ reset_all_data_commit("main")
    \/ reset_all_data_busy("main")
    \/ \E name \in ClubNames, owner \in OwnerIds, money \in Moneys :
           create_club_call("main", name, owner, money, NULL)
    \/ create_club_insert("main")
    \/ create_club_commit("main")
    \/ \E c \in Conns :
           \/ Busy(c)
           \/ \E keep \in BOOLEAN : StoreError(c, keep)
           \/ Resume(c)

SpecRace == InitRace /\ [][NextRace]_vars

(* Runs of a bot's lifecycle, on the thread of BotManager, whose shutdown
   closes the bot: the bot is set up and gets ready, its loop ticks over the
   rows of FanOutDb, and it is closed, between two ticks or in one. *)
InitLifecycle ==
    /\ db \in {FanOutDb(IsoText(1).type), FanOutDb(DateTime(1).type)}
    /\ tx = [c \in Conns |-> <<>>]
    /\ pc = [c \in Conns |-> "idle"]
    /\ frame = [c \in Conns |-> IdleFrame]
    /\ calls = 0
    /\ faults = 0
    /\ dirty = [c \in Conns |-> {}]
    /\ leaked = {}
    /\ okCount = [p \in PlayerIds |-> IF p = 1 THEN 1 ELSE 0]
    /\ lastTo = [p \in PlayerIds |-> IF p = 1 THEN 1 ELSE NULL]
    /\ now = 0
    /\ returned = [m \in {1, 2} |-> 0]
    /\ sends = <<>>
    /\ bot = [c \in Conns |-> BotNew]
    /\ req = ReqIdle
    /\ boot = BootIdle
    /\ web = WebIdle
    /\ view = NoView

NextLifecycle ==
    \/ \E ok \in BOOLEAN : setup_hook("main", ok)
    \/ on_ready("main")
    \/ before_check_match_reminders("main")
    \/ check_match_reminders_tick("main")
    \/ get_upcoming_matches_update("main")
    \/ get_upcoming_matches_commit("main")
    \/ \E m \in frame["main"].todo : check_match_reminders_match("main", m)
    \/ check_match_reminders_done("main")
    \/ close("main")
    \/ \E m \in frame["main"].todo : close_in_flight("main", m)
    \/ \E keep \in BOOLEAN : StoreError("main", keep)
    \/ Resume("main")

SpecLifecycle == InitLifecycle /\ [][NextLifecycle]_vars

(* The names and the times the create_match command is called with: the
   clubs of InitDb go by their ids as names, 9 is no club's name. *)
TeamNames == {1, 2, 9}

(* Runs of the match schedule: an administrator schedules matches with the
   create_match command on one thread, a club is deleted on the other, and
   time passes. *)
NextMatches ==
    \/ AdvanceClock
    \/ \E team1, team2 \in TeamNames : \E t \in {now, now + 1} :
           create_match_command_team1("main", team1, team2, t)
    \/ create_match_command_team2("main")
    \/ create_match_command_check("main")
    \/ create_match_command_insert("main")
    \/ delete_club_transfers("bot_thread", 2)
    \/ delete_club_matches("bot_thread")
    \/ delete_club_players("bot_thread")
    \/ delete_club_club("bot_thread")
    \/ delete_club_commit("bot_thread")
    \/ \E c \in Conns :
           \/ Busy(c)
           \/ \E keep \in BOOLEAN : StoreError(c, keep)
           \/ Resume(c)

SpecMatches == Init /\ [][NextMatches]_vars

(* Runs of the ledger with the administrator's reset: players are
   transferred, clubs deleted, and all data reset. *)
NextAdmin ==
    \E c \in Conns :
        \/ \E p \in PlayerIds, to \in ClubIds \cup {NULL}, fee \in Fees :
               transfer_player_select(c, p, to, fee)
        \/ transfer_player_update(c)
        \/ transfer_player_insert(c)
        \/ transfer_player_credit(c)
        \/ transfer_player_debit(c)
        \/ transfer_player_commit(c)
        \/ \E club \in ClubIds : delete_club_transfers(c, club)
        \/ delete_club_matches(c)
        \/ delete_club_players(c)
        \/ delete_club_club(c)
        \/ delete_club_commit(c)
        \/ reset_all_data_transfers(c)
        \/ reset_all_data_matches(c)
        \/ reset_all_data_players(c)
        \/ reset_all_data_clubs(c)
        \/ reset_all_data_sequence(c)
        \/ reset_all_data_commit(c)
        \/ Busy(c)
        \/ \E club \in ClubIds : delete_club_busy(c, club)
        \/ reset_all_data_busy(c)
        \/ \E keep \in BOOLEAN : StoreError(c, keep)
        \/ Resume(c)

SpecAdmin == Init /\ [][NextAdmin]_vars

(* Runs of the bootstrap: the thread of create_app starts its bot. *)
NextBootstrap ==
    \/ start_bot_with_retry_call
    \/ \E ok \in BOOLEAN, jitter \in 0..MaxJitter : start_bot_with_retry_attempt(ok, jitter)

SpecBootstrap == Init /\ [][NextBootstrap]_vars

(* Runs of the rate-limited client: the callers call make_request for the
   url, and time passes. *)
NextRequests ==
    \/ asyncio_sleep
    \/ \E i \in Callers :
           \/ \E url \in Urls : make_request_call(i, url)
           \/ make_request_check(i)
           \/ make_request_wake(i)
           \/ \E status \in {200, 429}, reset \in BOOLEAN, retry \in RetryAfterForms :
                  make_request_response(i, status, reset, retry)
           \/ make_request_client_error(i)
           \/ make_request_timeout(i)
           \/ make_request_retry(i)

SpecRequests == Init /\ [][NextRequests]_vars

(* Runs of the schedule with the loop ticking once per minute: the clock is
   the loop's; the bot of "bot_thread" ticks, then sleeps a minute, while on
   "main" matches are scheduled by the create_match command and a club is
   deleted.  The store does not fail; a write waits for the write lock. *)
InitSchedule ==
    /\ db = InitDb
    /\ tx = [c \in Conns |-> <<>>]
    /\ pc = [c \in Conns |-> "idle"]
    /\ frame = [c \in Conns |-> IdleFrame]
    /\ calls = MaxCalls - ScheduleCommands - (MaxTime + 1)
    /\ faults = 0
    /\ dirty = [c \in Conns |-> {}]
    /\ leaked = {}
    /\ okCount = [p \in PlayerIds |-> IF p = 1 THEN 1 ELSE 0]
    /\ lastTo = [p \in PlayerIds |-> IF p = 1 THEN 1 ELSE NULL]
    /\ now = 0
    /\ returned = [m \in {1} |-> 0]
    /\ sends = <<>>
    /\ bot = [c \in Conns |-> BotLooping]
    /\ req = ReqIdle
    /\ boot = BootIdle
    /\ web = WebIdle
    /\ view = NoView

(* The steps of the loop on "bot_thread". *)
TickStep ==
    \/ get_upcoming_matches_select("bot_thread")
    \/ get_upcoming_matches_update("bot_thread")
    \/ get_upcoming_matches_commit("bot_thread")
    \/ \E m \in frame["bot_thread"].todo : check_match_reminders_match("bot_thread", m)
    \/ check_match_reminders_done("bot_thread")
    \/ check_match_reminders_sleep("bot_thread")

(* The steps by which a command begun on "main" goes on. *)
CommandStep ==
    \/ create_match_command_team2("main")
    \/ create_match_command_check("main")
    \/ create_match_command_insert("main")
    \/ delete_club_matches("main")
    \/ delete_club_players("main")
    \/ delete_club_club("main")
    \/ delete_club_commit("main")
    \/ Resume("main")

(* A command starts on "main"; the ticks of the run keep their calls. *)
CommandStart ==
    /\ calls < MaxCalls - (MaxTime + 1)
    /\ \/ \E f \in Fixtures : \E t \in {now, now + 1, now + 2} :
               create_match_command_team1("main", f[1], f[2], t)
       \/ delete_club_transfers("main", 2)

NextSchedule == TickStep \/ CommandStep \/ CommandStart

SpecSchedule ==
    InitSchedule /\ [][NextSchedule]_vars /\ WF_vars(TickStep) /\ WF_vars(CommandStep)

(* Runs of the create_player and set_player_value commands. *)
NextPlayers ==
    \E c \in Conns :
        \/ \E name \in PlayerNames, value \in Values, age \in Ages, club \in {NULL, 1, 9} :
               create_player_command(c, name, value, age, club)
        \/ create_player_insert(c)
        \/ create_player_commit(c)
        \/ \E name \in PlayerNames, value \in Values :
               set_player_value_command(c, name, value)
        \/ update_player_value_update(c)
        \/ update_player_value_commit(c)
        \/ Busy(c)
        \/ \E keep \in BOOLEAN : StoreError(c, keep)
        \/ Resume(c)

SpecPlayers == Init /\ [][NextPlayers]_vars

(* Runs of the process start, with and without DISCORD_TOKEN. *)
InitStartup ==
    /\ db = InitDb
    /\ tx = [c \in Conns |-> <<>>]
    /\ pc = [c \in Conns |-> "idle"]
    /\ frame = [c \in Conns |-> IdleFrame]
    /\ calls = 0
    /\ faults = 0
    /\ dirty = [c \in Conns |-> {}]
    /\ leaked = {}
    /\ okCount = [p \in PlayerIds |-> IF p = 1 THEN 1 ELSE 0]
    /\ lastTo = [p \in PlayerIds |-> IF p = 1 THEN 1 ELSE NULL]
    /\ now = 0
    /\ returned = [m \in {1} |-> 0]
    /\ sends = <<>>
    /\ bot = [c \in Conns |-> BotNew]
    /\ req = ReqIdle
    /\ boot = BootIdle
    /\ \E token \in BOOLEAN : web = [WebIdle EXCEPT !.token = token]
    /\ view = NoView

NextStartup ==
    \/ start_bot_construct
    \/ \E o \in Owners : bot_start(o)
    \/ \E t \in Starters :
           \/ create_app(t)
           \/ start_discord_bot_acquire(t)
           \/ start_discord_bot_test(t)
           \/ start_discord_bot_set(t)
           \/ start_discord_bot_construct(t)

SpecStartup == InitStartup /\ [][NextStartup]_vars

(* Runs of the transfer_player command: both bots of the process handle
   commands, each on its thread. *)
NextTransferCommand ==
    \E c \in Conns :
        \/ \E p \in PlayerIds, to \in CommandClubs, fee \in CommandFees :
               transfer_player_command_check(c, p, to, fee)
        \/ transfer_player_command_call(c)
        \/ transfer_player_update(c)
        \/ transfer_player_insert(c)
        \/ transfer_player_credit(c)
        \/ transfer_player_debit(c)
        \/ transfer_player_commit(c)
        \/ Busy(c)
        \/ Resume(c)

SpecTransferCommand == Init /\ [][NextTransferCommand]_vars

----------------------------------------------------------------------------
(* The club commands.  create_club_command looks the name and the owner up and
   hands initial_money to create_club as it came; set_club_money refuses a
   negative amount. *)

(* The amounts an administrator types. *)
CommandMoneys == {0 - 5, 0, 3}

(* get_club_by_owner: SELECT * FROM clubs WHERE owner_id = ? *)
ClubByOwner(s, owner) == {k \in DOMAIN s.clubs : s.clubs[k].owner_id = owner}

(* create_club_command up to its call of create_club: the two lookups, then
   create_club(name, owner.id, initial_money or 0.0, role_id). *)
create_club_command(c, name, owner, initial_money, role) ==
    /\ pc[c] = "idle"
    /\ calls < MaxCalls
    /\ View(c).seq.clubs < MaxClubs
    /\ calls' = calls + 1
    /\ LET call == [IdleFrame EXCEPT !.op = "create_club", !.name = name,
                                     !.owner_id = owner, !.money = initial_money,
                                     !.role_id = role]
           reply(err) ==
               /\ pc' = [pc EXCEPT ![c] = "ret"]
               /\ frame' = [frame EXCEPT ![c] =
                      [call EXCEPT !.error = err, !.pre = <<View(c)>>, !.post = <<db>>]]
       IN  IF ClubByName(View(c), name) # {} THEN reply("name exists")
           ELSE IF ClubByOwner(View(c), owner) # {} THEN reply("owner has a club")
           ELSE /\ pc' = [pc EXCEPT ![c] = "cc_insert"]
                /\ frame' = [frame EXCEPT ![c] = call]
    /\ UNCHANGED <<db, tx, faults, dirty, leaked, okCount, lastTo, sched>>

(* set_club_money up to its call of update_club_money(club['id'], amount). *)
set_club_money(c, club_name, amount) ==
    /\ pc[c] = "idle"
    /\ calls < MaxCalls
    /\ calls' = calls + 1
    /\ LET found == ClubByName(View(c), club_name)
           club == CHOOSE k \in found : TRUE
           call == [IdleFrame EXCEPT !.op = "update_club_money", !.name = club_name,
                                     !.money = amount]
           reply(err) ==
               /\ pc' = [pc EXCEPT ![c] = "ret"]
               /\ frame' = [frame EXCEPT ![c] =
                      [call EXCEPT !.error = err, !.pre = <<View(c)>>, !.post = <<db>>]]
       IN  IF found = {} THEN reply("not found")
           ELSE IF amount < 0 THEN reply("negative amount")
           ELSE /\ pc' = [pc EXCEPT ![c] = "um_update"]
                /\ frame' = [frame EXCEPT ![c] = [call EXCEPT !.club_id = club]]
    /\ UNCHANGED <<db, tx, faults, dirty, leaked, okCount, lastTo, sched>>

(* Runs of the commands that set or move money, one command at a time on
   "main": clubs are created, funded and deleted, players created and
   transferred. *)
NextMoney ==
    \/ \E name \in ClubNames, owner \in OwnerIds, money \in CommandMoneys :
           create_club_command("main", name, owner, money, NULL)
    \/ create_club_insert("main")
    \/ create_club_commit("main")
    \/ \E name \in ClubNames, money \in CommandMoneys : set_club_money("main", name, money)
    \/ update_club_money_update("main")
    \/ update_club_money_commit("main")
    \/ \E name \in PlayerNames, club \in {NULL, 1} :
           create_player_command("main", name, 3, NULL, club)
    \/ create_player_insert("main")
    \/ create_player_commit("main")
    \/ \E p \in PlayerIds, to \in CommandClubs, fee \in CommandFees :
           transfer_player_command_check("main", p, to, fee)
    \/ transfer_player_command_call("main")
    \/ transfer_player_update("main")
    \/ transfer_player_insert("main")
    \/ transfer_player_credit("main")
    \/ transfer_player_debit("main")
    \/ transfer_player_commit("main")
    \/ \E club \in {1, 2} : delete_club_transfers("main", club)
    \/ delete_club_matches("main")
    \/ delete_club_players("main")
    \/ delete_club_club("main")
    \/ delete_club_commit("main")
    \/ Resume("main")

SpecMoney == Init /\ [][NextMoney]_vars

(* Runs of the commands that write references to clubs, on the threads of the
   two bots: clubs are deleted, players created and transferred, matches
   scheduled, the store reset. *)
NextIntegrity ==
    \E c \in Conns :
        \/ \E club \in {1, 2} : delete_club_transfers(c, club)
        \/ delete_club_matches(c)
        \/ delete_club_players(c)
        \/ delete_club_club(c)
        \/ delete_club_commit(c)
        \/ \E name \in PlayerNames, club \in {NULL, 1} :
               create_player_command(c, name, 3, NULL, club)
        \/ create_player_insert(c)
        \/ create_player_commit(c)
        \/ \E p \in PlayerIds, to \in CommandClubs :
               transfer_player_command_check(c, p, to, 2)
        \/ transfer_player_command_call(c)
        \/ transfer_player_update(c)
        \/ transfer_player_insert(c)
        \/ transfer_player_credit(c)
        \/ transfer_player_debit(c)
        \/ transfer_player_commit(c)
        \/ \E team1, team2 \in TeamNames : create_match_command_team1(c, team1, team2, now + 1)
        \/ create_match_command_team2(c)
        \/ create_match_command_check(c)
        \/ create_match_command_insert(c)
        \/ reset_all_data_transfers(c)
        \/ reset_all_data_matches(c)
        \/ reset_all_data_players(c)
        \/ reset_all_data_clubs(c)
        \/ reset_all_data_sequence(c)
        \/ reset_all_data_commit(c)
        \/ Resume(c)

SpecIntegrity == Init /\ [][NextIntegrity]_vars

----------------------------------------------------------------------------
(* The delete confirmation.  delete_club_command looks the club up by name and
   puts a DeleteClubConfirmationView(club['id'], name) on display; its button
   calls delete_club(self.club_id). *)

(* delete_club_command: get_club_by_name(name), then the view. *)
delete_club_command(c, name) ==
    /\ pc[c] = "idle"
    /\ calls < MaxCalls
    /\ view.state # "pending"
    /\ calls' = calls + 1
    /\ LET found == ClubByName(View(c), name)
           club == CHOOSE k \in found : TRUE
       IN  IF found = {}
           THEN /\ pc' = [pc EXCEPT ![c] = "ret"]
                /\ frame' = [frame EXCEPT ![c] =
                       [IdleFrame EXCEPT !.op = "delete_club_command", !.name = name,
                                         !.error = "not found",
                                         !.pre = <<View(c)>>, !.post = <<db>>]]
                /\ UNCHANGED view
           ELSE /\ view' = [club_id |-> club, club_name |-> name, state |-> "pending"]
                /\ UNCHANGED <<pc, frame>>
    /\ UNCHANGED <<db, tx, faults, dirty, leaked, okCount, lastTo,
                   now, returned, sends, bot, req, boot, web>>

(* super().__init__(timeout=30): the view stops answering. *)
view_timeout ==
    /\ view.state = "pending"
    /\ view' = NoView
    /\ UNCHANGED <<db, tx, pc, frame, calls, faults, dirty, leaked, okCount, lastTo,
                   now, returned, sends, bot, req, boot, web>>

(* confirm_delete: success = delete_club(self.club_id), up to its first
   statement; the rest are the steps of delete_club. *)
confirm_delete(c) ==
    /\ view.state = "pending"
    /\ pc[c] = "idle"
    /\ calls < MaxCalls
    /\ LockFree(c)
    /\ calls' = calls + 1
    /\ tx' = [tx EXCEPT ![c] = <<DeleteTransfersOf(View(c), view.club_id)>>]
    /\ frame' = [frame EXCEPT ![c] =
                    [IdleFrame EXCEPT !.op = "delete_club", !.club_id = view.club_id,
                                      !.pre = <<View(c)>>]]
    /\ pc' = [pc EXCEPT ![c] = "dc_matches"]
    /\ view' = [view EXCEPT !.state = "confirmed"]
    /\ UNCHANGED <<db, faults, dirty, leaked, okCount, lastTo,
                   now, returned, sends, bot, req, boot, web>>

(* Runs of the delete confirmation, one command at a time on "main": a
   deletion is asked for, the store is reset and clubs are created, the
   deletion is confirmed. *)
InitConfirm ==
    /\ db = InitDb
    /\ tx = [c \in Conns |-> <<>>]
    /\ pc = [c \in Conns |-> "idle"]
    /\ frame = [c \in Conns |-> IdleFrame]
    /\ calls = MaxCalls - ConfirmCalls
    /\ faults = 0
    /\ dirty = [c \in Conns |-> {}]
    /\ leaked = {}
    /\ okCount = [p \in PlayerIds |-> IF p = 1 THEN 1 ELSE 0]
    /\ lastTo = [p \in PlayerIds |-> IF p = 1 THEN 1 ELSE NULL]
    /\ now = 0
    /\ returned = [m \in {1} |-> 0]
    /\ sends = <<>>
    /\ bot = [c \in Conns |-> BotLooping]
    /\ req = ReqIdle
    /\ boot = BootIdle
    /\ web = WebIdle
    /\ view = NoView

NextConfirm ==
    \/ \E name \in {1, 2, 4} : delete_club_command("main", name)
    \/ view_timeout
    \/ confirm_delete("main")
    \/ delete_club_matches("main")
    \/ delete_club_players("main")
    \/ delete_club_club("main")
    \/ delete_club_commit("main")
    \/ reset_all_data_transfers("main")
    \/ reset_all_data_matches("main")
    \/ reset_all_data_players("main")
    \/ reset_all_data_clubs("main")
    \/ reset_all_data_sequence("main")
    \/ reset_all_data_commit("main")
    \/ \E name \in ClubNames, owner \in OwnerIds :
           create_club_command("main", name, owner, 0, NULL)
    \/ create_club_insert("main")
    \/ create_club_commit("main")
    \/ Resume("main")

SpecConfirm == InitConfirm /\ [][NextConfirm]_vars

----------------------------------------------------------------------------
(* The claims. *)

(* Thread c stands at the return of a call of op. *)
AtReturn(c, op) == pc[c] = "ret" /\ frame[c].op = op

(* The content the returning call of c started writing on, and the committed
   content it left. *)
Before(c) == frame[c].pre[1]
After(c) == frame[c].post[1]

(* The transfer rows of content s about player p. *)
TransfersOf(s, p) == {t \in s.transfers : t.player_id = p}

(* The destination of the latest transfer row of player p in content s, NULL
   if the player has none. *)
LatestTo(s, p) ==
    IF TransfersOf(s, p) = {} THEN NULL
    ELSE (CHOOSE t \in TransfersOf(s, p) : \A u \in TransfersOf(s, p) : u.id <= t.id).to_club_id

(* C1: transfer_player is all-or-nothing: the writes of a call that failed
   after an earlier write never become part of the committed database, also
   not when a later successful operation commits on the same connection: no
   commit takes in writes of a failed transfer and leaves the player in a club
   that is not the destination of the player's latest transfer row. *)
C1_TransferAllOrNothing ==
    \A e \in leaked :
        e.op = "transfer_player" => db.players[e.on].club_id = LatestTo(db, e.on)

(* C2: a committed transfer with recorded source club A (not null), destination
   B # A and fee F leaves A.money = A.money before + F, B.money = B.money
   before - F, and every other club's money as it was. *)
C2_MoneyConservation ==
    \A c \in Conns :
        (/\ AtReturn(c, "transfer_player")
         /\ frame[c].result
         /\ frame[c].from_club_id # NULL
         /\ frame[c].from_club_id # frame[c].to_club_id)
        => /\ DOMAIN After(c).clubs = DOMAIN Before(c).clubs
           /\ \A k \in DOMAIN Before(c).clubs :
                  After(c).clubs[k].money =
                      IF k = frame[c].from_club_id
                      THEN Before(c).clubs[k].money + frame[c].transfer_fee
                      ELSE IF k = frame[c].to_club_id
                      THEN Before(c).clubs[k].money - frame[c].transfer_fee
                      ELSE Before(c).clubs[k].money

(* A transfer between two existing clubs has returned success, and a third
   club exists. *)
C2_Witness ==
    \E c \in Conns :
        /\ AtReturn(c, "transfer_player")
        /\ frame[c].result
        /\ frame[c].from_club_id # NULL
        /\ frame[c].from_club_id # frame[c].to_club_id
        /\ {frame[c].from_club_id, frame[c].to_club_id} \subseteq DOMAIN Before(c).clubs
        /\ DOMAIN Before(c).clubs \ {frame[c].from_club_id, frame[c].to_club_id} # {}

(* C3: a committed transfer of a free agent (recorded source null) to club B
   with fee F leaves B.money = B.money before - F and every other club's money
   as it was, sets the player's club_id to B, and adds exactly one transfer
   row, (player, null, B, F). *)
C3_FreeAgentTransfer ==
    \A c \in Conns :
        (/\ AtReturn(c, "transfer_player")
         /\ frame[c].result
         /\ frame[c].from_club_id = NULL)
        => /\ DOMAIN After(c).clubs = DOMAIN Before(c).clubs
           /\ \A k \in DOMAIN Before(c).clubs :
                  After(c).clubs[k].money =
                      IF k = frame[c].to_club_id
                      THEN Before(c).clubs[k].money - frame[c].transfer_fee
                      ELSE Before(c).clubs[k].money
           /\ After(c).players[frame[c].player_id].club_id = frame[c].to_club_id
           /\ Before(c).transfers \subseteq After(c).transfers
           /\ \E t \in After(c).transfers :
                  /\ After(c).transfers \ Before(c).transfers = {t}
                  /\ t.player_id = frame[c].player_id
                  /\ t.from_club_id = NULL
                  /\ t.to_club_id = frame[c].to_club_id
                  /\ t.transfer_fee = frame[c].transfer_fee

(* A free agent's transfer to an existing club has returned success while
   another club exists. *)
C3_Witness ==
    \E c \in Conns :
        /\ AtReturn(c, "transfer_player")
        /\ frame[c].result
        /\ frame[c].from_club_id = NULL
        /\ Before(c).players[frame[c].player_id].club_id = NULL
        /\ frame[c].to_club_id \in DOMAIN Before(c).clubs
        /\ DOMAIN Before(c).clubs \ {frame[c].to_club_id} # {}

(* C4: after any sequence of transfer calls, some succeeding and some failing,
   a player's club_id is the destination of the last transfer of the player
   that returned success, and the player has as many transfer rows as
   transfers that returned success; in the committed database and in what
   every connection reads, once no call is running. *)
C4_LastSuccessWins ==
    (\A c \in Conns : pc[c] = "idle")
    => \A p \in PlayerIds : \A s \in {db} \cup {View(c) : c \in Conns} :
           /\ okCount[p] > 0 => s.players[p].club_id = lastTo[p]
           /\ Cardinality(TransfersOf(s, p)) = okCount[p]

(* C5: transfer_player with to_club_id equal to the player's current club
   returns an error and leaves every club's money and the transfer rows
   unchanged. *)
C5_SelfTransferRejected ==
    \A c \in Conns :
        (/\ AtReturn(c, "transfer_player")
         /\ frame[c].to_club_id # NULL
         /\ Before(c).players[frame[c].player_id].club_id = frame[c].to_club_id)
        => /\ ~frame[c].result
           /\ After(c).clubs = Before(c).clubs
           /\ After(c).transfers = Before(c).transfers

(* C8: after a successful delete_club(C) no transfer row and no match mentions
   C, every player that was in C is a free agent and still exists, the club row
   C is gone, and the rows that did not reference C are unchanged. *)
C8_DeleteClubCascade ==
    \A c \in Conns :
        (AtReturn(c, "delete_club") /\ frame[c].result)
        => LET C == frame[c].club_id
               pre == Before(c)
               post == After(c)
           IN  /\ \A t \in post.transfers : t.from_club_id # C /\ t.to_club_id # C
               /\ \A m \in DOMAIN post.matches :
                      post.matches[m].team1_id # C /\ post.matches[m].team2_id # C
               /\ DOMAIN post.players = DOMAIN pre.players
               /\ \A p \in DOMAIN pre.players :
                      post.players[p].club_id =
                          IF pre.players[p].club_id = C THEN NULL
                          ELSE pre.players[p].club_id
               /\ C \in DOMAIN pre.clubs
               /\ DOMAIN post.clubs = DOMAIN pre.clubs \ {C}
               /\ \A k \in DOMAIN post.clubs : post.clubs[k] = pre.clubs[k]
               /\ post.transfers =
                      {t \in pre.transfers : t.from_club_id # C /\ t.to_club_id # C}
               /\ DOMAIN post.matches =
                      {m \in DOMAIN pre.matches :
                          pre.matches[m].team1_id # C /\ pre.matches[m].team2_id # C}
               /\ \A m \in DOMAIN post.matches : post.matches[m] = pre.matches[m]
               /\ post.seq = pre.seq

(* A delete_club has returned success for a club that had a player, a match
   and a transfer row naming it, next to a transfer row and a player that did
   not reference it. *)
C8_Witness ==
    \E c \in Conns :
        /\ AtReturn(c, "delete_club")
        /\ frame[c].result
        /\ \E p \in DOMAIN Before(c).players : Before(c).players[p].club_id = frame[c].club_id
        /\ \E p \in DOMAIN Before(c).players : Before(c).players[p].club_id # frame[c].club_id
        /\ \E m \in DOMAIN Before(c).matches :
               Before(c).matches[m].team1_id = frame[c].club_id
        /\ \E t \in Before(c).transfers : t.to_club_id = frame[c].club_id
        /\ \E t \in Before(c).transfers :
               t.from_club_id # frame[c].club_id /\ t.to_club_id # frame[c].club_id

(* C9: delete_club is all-or-nothing: when one of its statements fails, the
   deletions and updates the call made before never become part of the
   committed database: in no committed state have writes of a failed
   delete_club(C) taken effect while the club row C still exists. *)
C9_DeleteAllOrNothing ==
    \A e \in leaked : ~(e.op = "delete_club" /\ e.on \in DOMAIN db.clubs)

(* C10: concurrent transfers of one player serialize: the source club a
   successful transfer recorded and credited is the club the player was in
   immediately before that transfer wrote. *)
C10_SourceIsCurrentClub ==
    \A c \in Conns :
        (AtReturn(c, "transfer_player") /\ frame[c].result)
        => frame[c].from_club_id = Before(c).players[frame[c].player_id].club_id

(* The delivery attempts made for side `side` of match m. *)
Attempts(m, side) == {i \in DOMAIN sends : sends[i][1] = m /\ sends[i][2] = side}

(* Some tick that selected match m has not finished yet. *)
InTick(m) ==
    \E c \in Conns : frame[c].op = "check_match_reminders" /\ pc[c] # "ret"
                     /\ m \in DOMAIN frame[c].matches

(* C6: a match inside the lookahead window with reminder_sent = false is
   flipped to true by exactly one tick, that tick makes exactly one delivery
   attempt to each member of each side's audience, and no later tick
   dispatches for the match: once the match is marked and no tick that
   selected it is still running, it was returned once and each side's audience
   has been sent to once. *)
C6_ExactlyOneDispatch ==
    \A m \in DOMAIN db.matches :
        (/\ db.matches[m].reminder_sent
         /\ ~InTick(m)
         /\ {db.matches[m].team1_id, db.matches[m].team2_id} \subseteq DOMAIN db.clubs)
        => /\ returned[m] = 1
           /\ Cardinality(Attempts(m, 1)) =
                  Cardinality(Audience(db.clubs[db.matches[m].team1_id], NULL))
           /\ Cardinality(Attempts(m, 2)) =
                  Cardinality(Audience(db.clubs[db.matches[m].team2_id], NULL))

(* C7: reminder_sent of a match only ever goes from false to true, and over
   any sequence of ticks a match is returned by get_upcoming_matches at most
   once: a call of get_upcoming_matches that started after the match had been
   returned does not return it again, whether or not anything was delivered. *)
C7_MarkedOnceForGood ==
    [][/\ \A m \in DOMAIN db.matches \cap DOMAIN db'.matches :
              db.matches[m].reminder_sent => db'.matches[m].reminder_sent
       /\ \A c \in Conns :
              (pc[c] = "gum_commit" /\ pc'[c] = "cmr_loop")
              => DOMAIN frame[c].matches \cap frame[c].seen = {}]_vars

(* A tick that started after a match had been returned and marked, with the
   match still inside the lookahead window, has gone by without getting it. *)
C7_Witness ==
    \E c \in Conns : \E m \in frame[c].seen :
        /\ frame[c].op = "check_match_reminders"
        /\ pc[c] = "ret"
        /\ m \notin DOMAIN frame[c].matches
        /\ m \in DOMAIN db.matches
        /\ db.matches[m].reminder_sent
        /\ m \in SelectUpcomingAnyFlag(db, now, LookaheadMinutes)
        /\ sends = <<>>
(* C11: two ticks running at once on different connections cannot interleave
   their select and mark: whatever the interleaving, a match is returned to at
   most one caller of get_upcoming_matches. *)
C11_ReturnedToOneCaller == \A m \in DOMAIN returned : returned[m] <= 1

(* SelectUpcoming as the specification words it: the half-open window
   now <= match_time < now + W. *)
InWindow(s, t, minutes) ==
    {m \in DOMAIN s.matches :
        /\ t <= s.matches[m].match_time.minute
        /\ s.matches[m].match_time.minute < t + minutes
        /\ ~s.matches[m].reminder_sent}

(* C12: a tick at time now selects and marks exactly the unmarked matches with
   now <= match_time < now + W: the SELECT of a call takes exactly these, a
   match at exactly now + W is not among them, and the UPDATE marks exactly the
   selected matches. *)
C12_HalfOpenWindow ==
    [][\A c \in Conns :
          /\ (pc[c] = "idle" /\ frame'[c].op = "check_match_reminders")
             => DOMAIN frame'[c].matches = InWindow(View(c), now, LookaheadMinutes)
          /\ (pc[c] = "gum_update" /\ pc'[c] = "gum_commit")
             => \A m \in DOMAIN View(c).matches :
                    tx'[c][1].matches[m].reminder_sent
                    = (View(c).matches[m].reminder_sent \/ m \in DOMAIN frame[c].matches)]_vars
(* No two club rows of content s share a name, and no two share an owner. *)
ClubsUnique(s) ==
    \A j, k \in DOMAIN s.clubs :
        j # k => /\ s.clubs[j].name # s.clubs[k].name
                 /\ s.clubs[j].owner_id # NULL => s.clubs[j].owner_id # s.clubs[k].owner_id

(* The create_club call returning on c meets a row with its name or its owner. *)
Clashes(c) ==
    \E k \in DOMAIN Before(c).clubs :
        \/ Before(c).clubs[k].name = frame[c].name
        \/ frame[c].owner_id # NULL /\ Before(c).clubs[k].owner_id = frame[c].owner_id

(* C13: after any sequence of create_club, update and delete operations no
   two club rows share a name and no two share an owner_id, in the committed
   database and in what every connection reads; a create_club whose name or
   owner another row has returns failure and adds no row. *)
C13_ClubsUnique ==
    [][/\ ClubsUnique(db')
       /\ \A c \in Conns :
              /\ ClubsUnique(View(c)')
              /\ (/\ pc[c] = "cc_insert"
                  /\ pc'[c] # "cc_insert"
                  /\ ~ClubRowAccepted(View(c), frame[c].name, frame[c].owner_id))
                 => /\ pc'[c] = "ret"
                    /\ ~frame'[c].result
                    /\ db' = db
                    /\ DOMAIN View(c)'.clubs \subseteq
                           DOMAIN View(c).clubs \cup DOMAIN db.clubs]_vars

(* A create_club for a taken name or owner has returned failure, next to a
   club created earlier in the run. *)
C13_Witness ==
    \E c \in Conns :
        /\ AtReturn(c, "create_club")
        /\ Clashes(c)
        /\ frame[c].error = "IntegrityError"
        /\ DOMAIN db.clubs \ ClubIds # {}
(* The transfer rows the returning call of c added. *)
NewRows(c) == After(c).transfers \ Before(c).transfers

(* C14: a transfer row is created together with exactly one change of a
   player's club_id to the row's to_club_id: a transfer that returned success
   added exactly one row, the row's player exists and is now in the row's
   destination club, and no other player's club_id changed. *)
C14_RowWithAssignment ==
    \A c \in Conns :
        (AtReturn(c, "transfer_player") /\ frame[c].result)
        => /\ Cardinality(NewRows(c)) = 1
           /\ \A t \in NewRows(c) :
                  /\ t.player_id \in DOMAIN After(c).players
                  /\ After(c).players[t.player_id].club_id = t.to_club_id
                  /\ \A q \in DOMAIN After(c).players \ {t.player_id} :
                         After(c).players[q] = Before(c).players[q]

(* C15: when a transfer row is recorded, its to_club_id is an existing club
   and its from_club_id, if not null, is the club the player was in
   immediately before the transfer wrote, also for direct calls. *)
C15_RowReferences ==
    \A c \in Conns :
        (AtReturn(c, "transfer_player") /\ frame[c].result)
        => \A t \in NewRows(c) :
               /\ t.to_club_id \in DOMAIN Before(c).clubs
               /\ t.from_club_id # NULL
                  => /\ t.player_id \in DOMAIN Before(c).players
                     /\ Before(c).players[t.player_id].club_id = t.from_club_id

(* C16: the ledger neither rejects nor clamps a transfer whose fee is above
   the destination club's money: the call fails only for a store error or a
   held lock, and on success the destination's money is its money before minus
   the fee (plus the fee again when the club is also the source credited). *)
C16_OverdraftAllowed ==
    \A c \in Conns :
        (/\ AtReturn(c, "transfer_player")
         /\ frame[c].to_club_id \in DOMAIN Before(c).clubs
         /\ frame[c].transfer_fee > Before(c).clubs[frame[c].to_club_id].money)
        => IF frame[c].result
           THEN After(c).clubs[frame[c].to_club_id].money =
                    Before(c).clubs[frame[c].to_club_id].money - frame[c].transfer_fee
                    + (IF frame[c].from_club_id = frame[c].to_club_id
                       THEN frame[c].transfer_fee ELSE 0)
           ELSE frame[c].error \in {"database is locked", "disk I/O error"}

(* A transfer with a fee above the destination's money has returned success
   and left the destination with a negative balance. *)
C16_Witness ==
    \E c \in Conns :
        /\ AtReturn(c, "transfer_player")
        /\ frame[c].result
        /\ frame[c].to_club_id \in DOMAIN Before(c).clubs
        /\ frame[c].transfer_fee > Before(c).clubs[frame[c].to_club_id].money
        /\ After(c).clubs[frame[c].to_club_id].money < 0
(* Thread c runs the iteration for match m in this step. *)
Dispatches(c, m) ==
    pc[c] = "cmr_loop" /\ m \in frame[c].todo /\ m \notin frame'[c].todo

(* The sends made in this step. *)
NewSends == SubSeq(sends', Len(sends) + 1, Len(sends'))

(* C17: within one dispatch a failed delivery to one recipient, whatever the
   failure, does not keep the dispatch from attempting the remaining
   recipients of the club and the other club's audience: every dispatch that
   gets to its sends attempts all of them. *)
C17_SendFailureIsolated ==
    [][\A c \in Conns : \A m \in frame[c].todo :
          Dispatches(c, m) => Len(NewSends) = Len(Plan(c, m))]_vars

(* C18: in a tick that selected several matches, a failure while one match
   is processed does not keep the others from being processed and attempted,
   the tick ends without an exception, and the thread is free for later ticks:
   an iteration, failing or not, only takes its own match off the list and
   leaves the loop running, an iteration with recipients makes an attempt
   whatever happened in the iterations before, and the loop ends with every
   selected match handled. *)
C18_MatchFailureIsolated ==
    [][\A c \in Conns :
          /\ \A m \in frame[c].todo :
                 Dispatches(c, m)
                 => /\ frame'[c].todo = frame[c].todo \ {m}
                    /\ pc'[c] = "cmr_loop"
                    /\ Plan(c, m) # <<>> => Len(NewSends) > 0
          /\ (pc[c] = "cmr_loop" /\ pc'[c] # "cmr_loop")
             => /\ pc'[c] = "ret"
                /\ frame'[c].result
                /\ DOMAIN frame[c].handled = DOMAIN frame[c].matches
          /\ (pc[c] = "ret" /\ pc'[c] # "ret") => pc'[c] = "idle"]_vars

(* A send for one match failed with an exception that ended the match's
   iteration, sends for another match were made after it, and a later tick has
   run and ended. *)
C18_Witness ==
    \E c \in Conns :
        /\ AtReturn(c, "check_match_reminders")
        /\ frame[c].seen # {}
        /\ \E i, j \in DOMAIN sends :
               /\ i < j
               /\ sends[i][4] = "HTTPException"
               /\ sends[j][1] # sends[i][1]

(* C19: when a selected match references a club that no longer exists at
   the tick's lookup, the tick sends nothing for that match, does not fail,
   and goes on with the remaining selected matches. *)
C19_MissingClubSkipped ==
    [][\A c \in Conns : \A m \in frame[c].todo :
          (/\ Dispatches(c, m)
           /\ \/ frame[c].matches[m].team1_id \notin DOMAIN View(c).clubs
              \/ frame[c].matches[m].team2_id \notin DOMAIN View(c).clubs)
          => /\ sends' = sends
             /\ frame'[c].handled[m] = "TypeError"
             /\ frame'[c].todo = frame[c].todo \ {m}
             /\ pc'[c] = "cmr_loop"]_vars

(* A tick has handled a match whose club was gone, without a send for it, and
   has made sends for another match it had selected. *)
C19_Witness ==
    \E c \in Conns : \E a, b \in DOMAIN frame[c].handled :
        /\ AtReturn(c, "check_match_reminders")
        /\ a # b
        /\ frame[c].handled[a] = "TypeError"
        /\ Attempts(a, 1) \cup Attempts(a, 2) = {}
        /\ Attempts(b, 1) \cup Attempts(b, 2) # {}

(* The audience of a club as the specification words it: the members of the
   club's group in all guilds when there are any, else the club's owner. *)
ExpectedAudience(club) ==
    LET members == UNION {Guilds[g][club.role_id] :
                             g \in {h \in DOMAIN Guilds : club.role_id \in DOMAIN Guilds[h]}}
    IN  IF club.role_id # NULL /\ members # {} THEN members ELSE {club.owner_id}

(* C20: the audience of a club in a reminder is every member of its group in
   every guild when the group resolves to at least one member, and otherwise
   (no group, group not found, group without members) exactly the club's
   owner: a dispatch whose sends all succeed has sent to exactly that audience
   on each side. *)
C20_AudienceRule ==
    [][\A c \in Conns : \A m \in frame[c].todo :
          (/\ Dispatches(c, m)
           /\ LookupError(c, m) = "none"
           /\ \A i \in DOMAIN NewSends : NewSends[i][4] = "ok")
          => \A side \in {1, 2} :
                 {NewSends[i][3] : i \in {k \in DOMAIN NewSends : NewSends[k][2] = side}}
                 = ExpectedAudience(View(c).clubs[IF side = 1
                                                  THEN frame[c].matches[m].team1_id
                                                  ELSE frame[c].matches[m].team2_id])]_vars

(* Thread c runs the second half of an iteration in this step, for a match
   whose two club rows, as the iteration read them, have no role and one and
   the same owner, whom get_user finds. *)
SameOwnerDispatch(c) ==
    /\ pc[c] = "cmr_team2"
    /\ pc'[c] # "cmr_team2"
    /\ frame[c].matches[frame[c].cur].team2_id \in DOMAIN View(c).clubs
    /\ LET team1_data == frame[c].team1_data[1]
           team2_data == View(c).clubs[frame[c].matches[frame[c].cur].team2_id]
       IN  /\ team1_data.role_id = NULL
           /\ team2_data.role_id = NULL
           /\ team1_data.owner_id = team2_data.owner_id
           /\ team1_data.owner_id \in CachedUsers

(* C21: when both clubs of a match have no notification group and resolve
   to the same single recipient, the reminder for the match is sent to that
   recipient exactly once, not twice (and not never). *)
C21_SameOwnerOnce ==
    [][\A c \in Conns :
          SameOwnerDispatch(c)
          => Cardinality({i \in DOMAIN NewSends :
                             NewSends[i][3] = frame[c].team1_data[1].owner_id}) = 1]_vars

(* C22: no body of the reminder loop (no call of get_upcoming_matches by the
   loop) runs on a bot before the bot has signalled readiness, although
   setup_hook starts the loop before the connection is ready. *)
C22_NoTickBeforeReady ==
    \A c \in Conns :
        /\ frame[c].op = "check_match_reminders" => bot[c].ready
        /\ bot[c].task = "looping" => bot[c].ready

(* The loop was started by setup_hook before the bot was ready, and a body has
   run after the ready event and made sends. *)
C22_Witness ==
    \E c \in Conns :
        /\ AtReturn(c, "check_match_reminders")
        /\ bot[c].task = "looping"
        /\ sends # <<>>

(* C23: when close is requested while a tick is in flight, the tick runs to
   its end: a tick whose get_upcoming_matches has returned never ends with a
   match it had marked as sent left without its iteration, or with the
   iteration broken off. *)
C23_InFlightTickCompletes ==
    \A c \in Conns :
        (/\ AtReturn(c, "check_match_reminders")
         /\ frame[c].error \notin {"disk I/O error", "database is locked"})
        => \A m \in DOMAIN frame[c].matches :
               /\ m \in DOMAIN frame[c].handled
               /\ frame[c].handled[m] # "CancelledError"

(* Thread c's create_club is rejected in this step: its INSERT runs (the
   store neither locked nor failing) and meets a row with its name or its
   owner. *)
Rejected(c) ==
    /\ pc[c] = "cc_insert"
    /\ pc'[c] # "cc_insert"
    /\ LockFree(c)
    /\ faults' = faults
    /\ \E k \in DOMAIN View(c).clubs :
           \/ View(c).clubs[k].name = frame[c].name
           \/ frame[c].owner_id # NULL /\ View(c).clubs[k].owner_id = frame[c].owner_id

(* C26: a club creation rejected for a duplicate name or for an owner who
   already owns a club reports failure to its caller and leaves the clubs,
   players, transfers and matches relations as they were, in the committed
   database and in what every connection reads, with nothing of the call left
   pending. *)
C26_RejectedCreateChangesNothing ==
    [][\A c \in Conns :
          Rejected(c)
          => /\ pc'[c] = "ret"
             /\ frame'[c].result = FALSE
             /\ frame'[c].error = "IntegrityError"
             /\ db' = db
             /\ \A d \in Conns : View(d)' = View(d)
             /\ dirty' = dirty]_vars

(* A create_club with a free name for an owner who already owns a club has
   returned failure. *)
C26_Witness ==
    \E c \in Conns :
        /\ AtReturn(c, "create_club")
        /\ frame[c].result = FALSE
        /\ frame[c].error = "IntegrityError"
        /\ \A k \in DOMAIN View(c).clubs : View(c).clubs[k].name # frame[c].name
        /\ \E k \in DOMAIN View(c).clubs : View(c).clubs[k].owner_id = frame[c].owner_id

(* C27: every match row is created with team1_id and team2_id referencing
   two existing, distinct clubs and with a match_time strictly later than the
   time of its creation. *)
C27_MatchRowValid ==
    [][\A m \in DOMAIN db'.matches \ DOMAIN db.matches :
          /\ db'.matches[m].team1_id \in DOMAIN db'.clubs
          /\ db'.matches[m].team2_id \in DOMAIN db'.clubs
          /\ db'.matches[m].team1_id # db'.matches[m].team2_id
          /\ db'.matches[m].match_time.minute > now]_vars

(* The clubs whose deletion this step commits: the club of a delete_club call
   that commits, and the clubs of failed delete_club calls whose pending
   DELETEs the commit of a later call on the connection carries along. *)
DeletedClubs ==
    UNION {{e.on : e \in {d \in dirty[c] \cup {Call(c)} : d.op = "delete_club"}} :
              c \in {d \in Conns : db' # db /\ tx[d] # <<>> /\ tx'[d] = <<>>}}

(* C28: a committed transfer row is never modified, and it is removed only
   by delete_club of a club it references as source or destination: no other
   operation removes transfer rows. *)
C28_TransfersAppendOnly ==
    [][\A row \in db.transfers :
          \/ row \in db'.transfers
          \/ row.from_club_id \in DeletedClubs
          \/ row.to_club_id \in DeletedClubs]_vars

(* 2^n *)
RECURSIVE Pow2(_)
Pow2(n) == IF n = 0 THEN 1 ELSE 2 * Pow2(n - 1)

(* C25: the bootstrap connection is attempted at most 5 times:
   start_bot_with_retry stops at the first attempt that succeeds, before each
   further attempt it waits the base delay, doubled after each failed attempt,
   plus jitter, and after the 5th failure it makes no further attempt and no
   further wait. *)
C25_BootstrapRetries ==
    /\ boot.started <= Retries
    /\ \A k \in DOMAIN boot.waits :
           /\ boot.waits[k] >= InitialDelay * Pow2(k - 1)
           /\ boot.waits[k] <= InitialDelay * Pow2(k - 1) + MaxJitter
    /\ boot.pc = "start" => Len(boot.waits) = boot.started
    /\ boot.result = "returned" => Len(boot.waits) = boot.started - 1
    /\ boot.result = "failed" => boot.started = Retries /\ Len(boot.waits) = Retries - 1
    /\ boot.pc = "done" <=> boot.result # "none"

(* The 5th attempt has failed after four waits. *)
C25_Witness ==
    /\ boot.result = "failed"
    /\ boot.started = 5
    /\ Len(boot.waits) = 4

(* C24: every call of make_request ends after at most 3 requests: it either
   returns the first response that is not a 429, or ends with an error once 3
   requests have each ended with a 429 or a client error; there is no 4th
   request. *)
C24_ThreeAttempts ==
    \A i \in Callers :
        /\ req.call[i].made <= MaxRetries
        /\ req.call[i].pc = "done"
           => \/ req.call[i].result = "response"
              \/ /\ req.call[i].made = MaxRetries
                 /\ req.call[i].result \in {"ClientError", "Max retries exceeded"}

(* Caller i issues a request in this step. *)
Issues(i) == req'.call[i].made = req.call[i].made + 1

(* C29: after a response for the url that carries a rate-limit reset time
   T, make_request issues no further request to the url before T. *)
C29_WaitsForReset ==
    [][\A i \in Callers : Issues(i) => req.carried[req.call[i].url] = 0]_vars

(* The request of caller i ends in this step. *)
Answered(i) == req.call[i].pc = "await" /\ req'.call[i].pc # "await"

(* C30: on a 429 at attempt k make_request waits the Retry-After of the
   response when it has the header and base * 2^k otherwise, on a client error
   at attempt k < 2 it waits base * 2^k, and only after the wait goes on. *)
C30_BackoffDelays ==
    [][\A i \in Callers :
          LET k == req.call[i].attempt
              waits(n) == req'.call[i].pc = "retry_sleep" /\ req'.call[i].wake = n
          IN  /\ (Answered(i) /\ req'.call[i].outcome = "429")
                 => IF req'.call[i].retry_after = "absent"
                    THEN waits(BaseDelay * Pow2(k))
                    ELSE waits(RetryAfterSeconds)
              /\ (Answered(i) /\ req'.call[i].outcome = "ClientError"
                    /\ k < MaxRetries - 1)
                 => waits(BaseDelay * Pow2(k))
              /\ (req.call[i].pc = "retry_sleep" /\ req'.call[i].pc # "retry_sleep")
                 => req.call[i].wake = 0]_vars

(* Thread c's transfer_player command passes its checks and calls the ledger
   in this step. *)
CallsLedger(c) == pc[c] = "tp_select" /\ pc'[c] = "tp_update"

(* Thread c's transfer_player command replies with an error in this step. *)
RejectsTransfer(c) ==
    /\ pc[c] = "idle" /\ pc'[c] = "ret"
    /\ frame'[c].op = "transfer_player"

(* C31: a transfer_player command with a negative fee, or a fee above the
   money the destination club has, is rejected and changes nothing: the
   ledger is only called with a fee that is not negative and that the club,
   as it is at the call, can pay; a rejected command leaves the store alone. *)
C31_UnaffordableRejected ==
    [][\A c \in Conns :
          /\ CallsLedger(c)
             => /\ frame[c].transfer_fee >= 0
                /\ frame[c].to_club_id \in DOMAIN View(c).clubs
                /\ View(c).clubs[frame[c].to_club_id].money >= frame[c].transfer_fee
          /\ RejectsTransfer(c) => db' = db /\ tx' = tx]_vars

(* The invocations of start_discord_bot that have passed the guard. *)
PassedGuard == {t \in Starters : web.thread[t] \in {"sleep", "no_token", "start", "running"}}

(* C32: of the start_discord_bot invocations of a process at most one
   passes the bot_started guard and goes on to construct and start a bot, the
   others return without starting anything, and bot_started never goes back
   to false. *)
C32_StartedOnce ==
    /\ [](/\ Cardinality(PassedGuard) <= 1
          /\ Cardinality(web.bots \cap Starters) <= 1
          /\ \A t \in Starters : web.thread[t] = "skipped" => t \notin web.bots
          /\ PassedGuard # {} => web.bot_started)
    /\ [][web.bot_started => web'.bot_started]_vars

(* Both invocations have returned from the guard, one of them with a bot. *)
C32_Witness ==
    /\ \E t \in Starters : web.thread[t] = "skipped"
    /\ \E t \in Starters : web.thread[t] = "running" /\ t \in web.bots

(* C34: in one process at most one FootballBot is constructed and at most
   one reminder loop is started, over both start paths. *)
C34_OneBotPerProcess ==
    /\ Cardinality(web.bots) <= 1
    /\ Cardinality(web.loops) <= 1

(* value >= 0, and the age absent or between 16 and 50. *)
PlayerRowValid(row) ==
    /\ row.value >= 0
    /\ row.age = NULL \/ (row.age >= MinAge /\ row.age <= MaxAge)

(* The create_player or set_player_value command of thread c replies with an
   error in this step. *)
RejectsPlayer(c) ==
    /\ pc[c] = "idle" /\ pc'[c] = "ret"
    /\ frame'[c].op \in {"create_player", "set_player_value"}

(* C33: every player created or revalued by the commands has a value >= 0
   and an age that is absent or within 16..50, in the database and in every
   open transaction; a request that breaks this changes no player row. *)
C33_PlayerValuesValid ==
    /\ [](\A s \in {db} \cup {tx[c][1] : c \in {d \in Conns : tx[d] # <<>>}} :
             \A q \in DOMAIN s.players : PlayerRowValid(s.players[q]))
    /\ [][\A c \in Conns :
             /\ RejectsPlayer(c) => db' = db /\ tx' = tx
             /\ (pc[c] = "idle" /\ pc'[c] \in {"cp_insert", "uv_update"})
                => PlayerRowValid([value |-> frame'[c].value, age |-> frame'[c].age])]_vars

(* A request with a negative value was rejected after a player had been
   created with an age at the lower limit. *)
C33_Witness ==
    \E c \in Conns :
        /\ pc[c] = "ret" /\ frame[c].error = "negative value"
        /\ \E q \in DOMAIN db.players : q \notin PlayerIds /\ db.players[q].age = MinAge

(* Match m was created at least a tick period before its time. *)
CreatedAhead(m) ==
    /\ m \in DOMAIN db.matches
    /\ db.matches[m].created_at + 1 <= db.matches[m].match_time.minute

(* C35: with the loop ticking once per minute, a match that was created at
   least one period before its match_time and is not deleted is selected by a
   tick before its match_time passes: the clock never passes the time of such
   a match while it is unselected, and such a match is eventually selected or
   deleted. *)
C35_SelectedBeforeKickoff ==
    /\ [][\A m \in DOMAIN db.matches :
             (CreatedAhead(m) /\ db.matches[m].match_time.minute < now')
             => db.matches[m].reminder_sent]_vars
    /\ \A m \in 1..(1 + ScheduleCommands) :
           (CreatedAhead(m) /\ db.matches[m].match_time.minute <= MaxTime)
           ~> (m \notin DOMAIN db.matches \/ db.matches[m].reminder_sent)

(* A match scheduled by the command a minute ahead, after the tick of its
   minute, has been selected by the next tick. *)
C35_Witness ==
    \E m \in DOMAIN db.matches :
        /\ m # 1
        /\ db.matches[m].created_at + 1 = db.matches[m].match_time.minute
        /\ db.matches[m].match_time.minute = now
        /\ db.matches[m].reminder_sent

(* C36: after any sequence of the commands create_club, set_club_money,
   create_player, transfer_player and delete_club, the money of every club is
   at least 0. *)
C36_MoneyNonNegative ==
    \A k \in DOMAIN db.clubs : db.clubs[k].money >= 0

(* Club reference k is null or the id of a club of the store. *)
RefersToClub(k) == k = NULL \/ k \in DOMAIN db.clubs

(* C37: after any sequence of the commands (create and delete club, create
   player, transfer, create match, reset) every player's club_id is null or
   the id of an existing club, and every transfer row and every match row
   references existing clubs only. *)
C37_ReferentialIntegrity ==
    /\ \A p \in DOMAIN db.players : RefersToClub(db.players[p].club_id)
    /\ \A t \in db.transfers :
           RefersToClub(t.from_club_id) /\ t.to_club_id \in DOMAIN db.clubs
    /\ \A m \in DOMAIN db.matches :
           /\ db.matches[m].team1_id \in DOMAIN db.clubs
           /\ db.matches[m].team2_id \in DOMAIN db.clubs

(* C38: a confirmation issued for the club named N deletes, when confirmed,
   only the club that carried the name N when it was issued, whatever happened
   between: every club row that the confirmed deletion removes carries the
   name the confirmation shows. *)
C38_ConfirmDeletesNamedClub ==
    [][(pc["main"] = "dc_commit" /\ view.state = "confirmed")
       => \A k \in DOMAIN db.clubs \ DOMAIN db'.clubs :
              db.clubs[k].name = view.club_name]_vars

(* C39: the rate-limit state is kept per endpoint.  A call for the url V is
   held back by _check_rate_limit exactly when the reset time recorded for V
   is ahead, and until then, whatever is recorded for another url; and a
   response for V leaves the reset time recorded for every other url as it
   was. *)
C39_PerEndpoint ==
    [][\A i \in Callers :
          LET v == req.call[i].url
          IN  /\ (req.call[i].pc = "check" /\ req'.call[i].pc # "check")
                 => IF req.rate_limit_reset[v] = 0
                    THEN Issues(i)
                    ELSE /\ req'.call[i].pc = "check_sleep"
                         /\ req'.call[i].wake = req.rate_limit_reset[v]
              /\ Answered(i)
                 => \A u \in Urls \ {v} :
                        req'.rate_limit_reset[u] = req.rate_limit_reset[u]]_vars

(* A call for V is past _check_rate_limit at its first pass, its request made
   without a sleep, while a reset time recorded for U is ahead and none is
   recorded for V. *)
C39_Witness ==
    \E i \in Callers :
        /\ req.call[i].url = "V"
        /\ req.call[i].pc = "await"
        /\ req.call[i].attempt = 0
        /\ req.rate_limit_reset["U"] > 0
        /\ req.rate_limit_reset["V"] = 0
        /\ \E j \in Callers \ {i} : req.call[j].url = "U" /\ req.call[j].pc = "done"
====
